---- MODULE Spec2Model ----
(***************************************************************************)
(* DeckNexus: the AI deck-building pipeline (DeckBuilderService.buildDeck  *)
(* over the local and the remote oracle provider), the batch reducer, and  *)
(* the controller that streams a build's events to its caller.             *)
(***************************************************************************)
EXTENDS Integers, Sequences, FiniteSets, TLC

(***************************************************************************)
(* Bounds of the model: the card pool a build works on.                    *)
(***************************************************************************)
NumBasics == 6
NumNonBasics == 33
NumCreatures == 33
NumSpells == 38
NumReqs == 2
PageSize == 5000
TickMs == 300000
NumTicks == 3
NumCallers == 3
FastFetch == 20
SlowFetch == 200
IdleStep == 50
NumSearches == 3
MaxCalls == 3
MaxRecords == 5

(***************************************************************************)
(* Program constants.                                                      *)
(***************************************************************************)
targetCards == 99
BasicBatchSize == 20
BatchSize == 30
AggroLandCount == 35
DefaultLandCount == 37
AggroCreatureCount == 30
DefaultCreatureCount == 26
MaxLandTarget == 37
DefaultLandTarget == 36
RemoteFallbackBasics == 12
RemoteFallbackNonBasics == 24
CARD_POOL_LIMIT == 20000
CACHE_DURATION == 600000
RATE_LIMIT_DELAY == 100
MAX_RETRIES == 3
INITIAL_RETRY_DELAY == 1000

Providers == {"local", "remote"}

(***************************************************************************)
(* Cards.  A card is its id; the pool lists the cards in the order the     *)
(* card database returned them.  type_line is modelled by the substrings   *)
(* the providers test for ("land", "basic", "creature").                   *)
(***************************************************************************)
PoolSize == NumBasics + NumNonBasics + NumCreatures + NumSpells
Cards == 1..PoolSize

IsLand(c) == c <= NumBasics + NumNonBasics
IsBasic(c) == c <= NumBasics
IsCreature(c) == c > NumBasics + NumNonBasics /\ c <= NumBasics + NumNonBasics + NumCreatures

\* edhrec_rank of a card; 0 stands for a card without a rank.
EdhrecRank(c) == IF c % 5 = 0 THEN 0 ELSE (c % 3) * 1000 + c

(***************************************************************************)
(* Names are sequences of characters.  A character is a number: 0 is a     *)
(* character that is neither a letter nor a digit, 1..499 are lower-case   *)
(* letters and digits, 501..999 the upper-case letters of 1..499.          *)
(***************************************************************************)
\* The names of four more cards, outside the pool, that are related to one
\* another: the second contains the first, the third is one edit away from
\* the first, the fourth is unrelated.
RelatedNames ==
  << <<10, 11, 12, 13, 14, 15>>,
     <<10, 11, 12, 13, 14, 15, 16, 17, 18>>,
     <<10, 11, 12, 13, 14, 19>>,
     <<20, 21, 22, 23, 24, 25>> >>
RelatedCards == (PoolSize + 1)..(PoolSize + Len(RelatedNames))

Name(c) == IF c <= PoolSize THEN <<500 + c, c, c>> ELSE RelatedNames[c - PoolSize]
UnknownName == <<450, 451, 452, 453>>

ToLowerChar(ch) == IF ch > 500 THEN ch - 500 ELSE ch
ToLowerCase(s) == [i \in 1..Len(s) |-> ToLowerChar(s[i])]
StripNonAlnum(s) == SelectSeq(s, LAMBDA ch : ch # 0)

\* String.prototype.includes
Includes(s, t) == \E i \in 0..(Len(s) - Len(t)) : \A k \in 1..Len(t) : s[i + k] = t[k]

Min2(a, b) == IF a < b THEN a ELSE b
Max2(a, b) == IF a > b THEN a ELSE b

\* Array.prototype.slice(start, end), negative indices counting from the end
JsSlice(s, start, end) ==
  LET n == Len(s)
      from == IF start < 0 THEN Max2(n + start, 0) ELSE Min2(start, n)
      to == IF end < 0 THEN Max2(n + end, 0) ELSE Min2(end, n)
  IN IF from < to THEN SubSeq(s, from + 1, to) ELSE <<>>

\* Array.prototype.slice(start)
JsSliceFrom(s, start) == JsSlice(s, start, Len(s))

SeqContains(s, x) == \E i \in 1..Len(s) : s[i] = x

\* Math.ceil(n * num / den) and Math.floor(n * num / den)
CeilFrac(n, num, den) == (n * num + den - 1) \div den
FloorFrac(n, num, den) == (n * num) \div den

\* The dynamic-programming matrix of levenshteinDistance, row by row: `prev` is
\* row j-1, `cur` the part of row j filled so far (columns 0..i-1).
RECURSIVE LevRow(_, _, _, _, _)
LevRow(prev, str1, ch, i, cur) ==
  IF i > Len(str1) THEN cur
  ELSE LET cost == IF str1[i] = ch THEN 0 ELSE 1
           cell == Min2(Min2(cur[i] + 1, prev[i + 1] + 1), prev[i] + cost)
       IN LevRow(prev, str1, ch, i + 1, Append(cur, cell))

RECURSIVE LevRows(_, _, _, _)
LevRows(prev, str1, str2, j) ==
  IF j > Len(str2) \/ Len(prev) = 0 THEN prev
  ELSE LevRows(LevRow(prev, str1, str2[j], 1, <<j>>), str1, str2, j + 1)

levenshteinDistance(str1, str2) ==
  LevRows([i \in 1..(Len(str1) + 1) |-> i - 1], str1, str2, 1)[Len(str1) + 1]

localFuzzyMatch(name1, name2) ==
  LET clean1 == StripNonAlnum(ToLowerCase(name1))
      clean2 == StripNonAlnum(ToLowerCase(name2))
  IN \/ Includes(clean1, clean2)
     \/ Includes(clean2, clean1)
     \/ levenshteinDistance(clean1, clean2) < 3

remoteFuzzyMatch(name1, name2) ==
  LET distance == levenshteinDistance(ToLowerCase(name1), ToLowerCase(name2))
      maxLength == Max2(Len(name1), Len(name2))
  IN maxLength > 0 /\ 10 * distance < 3 * maxLength

fuzzyMatch(p, name1, name2) ==
  IF p = "local" THEN localFuzzyMatch(name1, name2) ELSE remoteFuzzyMatch(name1, name2)

\* The predicate of batch.find / candidates.find in the reducers and in the final
\* creature and spell selections.
selectionMatches(p, cardName, selName) ==
  \/ Includes(ToLowerCase(cardName), ToLowerCase(selName))
  \/ Includes(ToLowerCase(selName), ToLowerCase(cardName))
  \/ fuzzyMatch(p, cardName, selName)

\* The predicate of the final land selection (no fuzzy tier).
landSelectionMatches(cardName, selName) ==
  \/ Includes(ToLowerCase(cardName), ToLowerCase(selName))
  \/ Includes(ToLowerCase(selName), ToLowerCase(cardName))

\* The predicate of findIndex in optimizeCuts.
cutMatches(p, cardName, cutName) ==
  \/ Includes(ToLowerCase(cardName), ToLowerCase(cutName))
  \/ fuzzyMatch(p, cardName, cutName)

\* Array.prototype.find / findIndex with each of the three predicates: the
\* first position in lo..hi whose card matches, 0 when there is none.  The
\* range is searched by halves, the left half first and the right half only
\* when the left half holds no match.
firstOf(left, right) == IF left > 0 THEN left ELSE right

RECURSIVE findSelection(_, _, _, _, _)
findSelection(p, cards, lo, hi, selName) ==
  IF lo > hi THEN 0
  ELSE IF lo = hi THEN (IF selectionMatches(p, Name(cards[lo]), selName) THEN lo ELSE 0)
  ELSE firstOf(findSelection(p, cards, lo, (lo + hi) \div 2, selName),
               findSelection(p, cards, (lo + hi) \div 2 + 1, hi, selName))

RECURSIVE findLandSelection(_, _, _, _)
findLandSelection(cards, lo, hi, selName) ==
  IF lo > hi THEN 0
  ELSE IF lo = hi THEN (IF landSelectionMatches(Name(cards[lo]), selName) THEN lo ELSE 0)
  ELSE firstOf(findLandSelection(cards, lo, (lo + hi) \div 2, selName),
               findLandSelection(cards, (lo + hi) \div 2 + 1, hi, selName))

RECURSIVE findCut(_, _, _, _, _)
findCut(p, cards, lo, hi, cutName) ==
  IF lo > hi THEN 0
  ELSE IF lo = hi THEN (IF cutMatches(p, Name(cards[lo]), cutName) THEN lo ELSE 0)
  ELSE firstOf(findCut(p, cards, lo, (lo + hi) \div 2, cutName),
               findCut(p, cards, (lo + hi) \div 2 + 1, hi, cutName))

\* Array.prototype.splice(index, 1)
RemoveAt(cards, i) == SubSeq(cards, 1, i - 1) \o SubSeq(cards, i + 1, Len(cards))

(***************************************************************************)
(* sortByEDHRank: Array.prototype.sort (stable) with the comparator that   *)
(* puts ranked cards first, by ascending rank, and keeps unranked cards in *)
(* their original order at the end.                                        *)
(***************************************************************************)
RankBefore(a, b) ==
  \/ EdhrecRank(a) # 0 /\ EdhrecRank(b) # 0 /\ EdhrecRank(a) < EdhrecRank(b)
  \/ EdhrecRank(a) # 0 /\ EdhrecRank(b) = 0

\* a stable sort puts card i after the cards that the comparator orders before
\* it and after the earlier cards that the comparator does not order after it
sortedPosition(cards) ==
  [i \in 1..Len(cards) |->
     1 + Cardinality({j \in 1..Len(cards) :
                        \/ RankBefore(cards[j], cards[i])
                        \/ j < i /\ ~RankBefore(cards[i], cards[j])})]

placeAt(cards, position) ==
  [k \in 1..Len(cards) |-> cards[CHOOSE i \in 1..Len(cards) : position[i] = k]]

sortByEDHRank(cards) == placeAt(cards, sortedPosition(cards))

\* createBatches: consecutive slices of batchSize cards
createBatches(array, batchSize) ==
  [k \in 1..((Len(array) + batchSize - 1) \div batchSize) |->
     JsSlice(array, (k - 1) * batchSize, k * batchSize)]

(***************************************************************************)
(* Oracle responses.  kind "throw" is a call that fails (service down,      *)
(* timeout, error status); "garbage" is text that holds no JSON; "json" is  *)
(* a JSON object and "wrapped" a JSON object with prose around it.  `has`   *)
(* says whether the object carries the list the caller reads; an entry of   *)
(* the list is ok when it is an object with a name, and not ok when         *)
(* reading its name throws (null, or no name).                              *)
(***************************************************************************)
Entry(nm) == [ok |-> TRUE, name |-> nm]
BadEntry == [ok |-> FALSE, name |-> <<>>]

Throw == [kind |-> "throw", has |-> FALSE, list |-> <<>>]
Garbage == [kind |-> "garbage", has |-> FALSE, list |-> <<>>]
EmptyObject == [kind |-> "json", has |-> FALSE, list |-> <<>>]
Selected(entries) == [kind |-> "json", has |-> TRUE, list |-> entries]

NamesOf(cards) == [i \in 1..Len(cards) |-> Entry(Name(cards[i]))]

\* response.match(/\{[\s\S]*\}/) followed by JSON.parse
ParsesExtracted(resp) == resp.kind \in {"json", "wrapped"}
\* JSON.parse of the whole response
ParsesDirect(resp) == resp.kind = "json"

\* makeRequest: the remote provider rethrows a failed call, the local provider
\* answers a failed call with getMockResponse.
makeRequest(p, raw, mock) ==
  IF p = "local" /\ raw.kind = "throw" THEN mock ELSE raw

(***************************************************************************)
(* The batch reducer (processBatchedLands / processBatchedCreatures /       *)
(* processBatchedSpells of both providers).                                 *)
(***************************************************************************)
ReducerKinds == {"basic", "non-basic", "creature", "spell"}

reducerBatchSize(kind) == IF kind = "basic" THEN BasicBatchSize ELSE BatchSize

\* Math.ceil(batch.length * fraction)
candidatesPerBatch(kind, n) ==
  CASE kind = "basic" -> CeilFrac(n, 8, 10)
    [] kind = "non-basic" -> CeilFrac(n, 25, 100)
    [] kind = "creature" -> CeilFrac(n, 3, 10)
    [] kind = "spell" -> CeilFrac(n, 35, 100)

\* a push that puts the match in front of what has been accepted
pushMatchInFront(st, batch, idx) ==
  IF idx > 0 /\ ~SeqContains(st.acc, batch[idx])
  THEN [st EXCEPT !.acc = <<batch[idx]>> \o @] ELSE st

\* the for-of loop over the selections: threw is TRUE when reading an entry threw
\* one selection of a response: nothing more is read once an entry has thrown;
\* an entry whose name cannot be read throws; otherwise
\* if (matchingCard && !allCandidates.includes(matchingCard)) push
pushMatch(st, batch, idx) ==
  IF idx > 0 /\ ~SeqContains(st.acc, batch[idx])
  THEN [st EXCEPT !.acc = Append(@, batch[idx])] ELSE st

matchSelection(p, batch, selection, st) ==
  IF st.threw THEN st
  ELSE IF ~selection.ok THEN [st EXCEPT !.threw = TRUE]
  ELSE pushMatch(st, batch, findSelection(p, batch, 1, Len(batch), selection.name))

\* the loop over selections[lo..hi], by halves: st is [threw, acc] before the
\* range, the value is [threw, acc] after it; the second half is read only
\* when the first half has not thrown
RECURSIVE matchRange(_, _, _, _, _, _)
RECURSIVE matchRest(_, _, _, _, _, _)
matchRange(p, batch, selections, lo, hi, st) ==
  IF lo > hi THEN st
  ELSE IF lo = hi THEN matchSelection(p, batch, selections[lo], st)
  ELSE matchRest(p, batch, selections, (lo + hi) \div 2 + 1, hi,
                 matchRange(p, batch, selections, lo, (lo + hi) \div 2, st))

matchRest(p, batch, selections, lo, hi, st) ==
  IF st.threw THEN st ELSE matchRange(p, batch, selections, lo, hi, st)

\* the loop over the selections of a response: threw is TRUE at an entry whose
\* name cannot be read, acc is what has been accepted up to there
matchSelections(p, batch, selections, acc) ==
  matchRange(p, batch, selections, 1, Len(selections), [threw |-> FALSE, acc |-> acc])

\* a catch block that takes the cards from the end of the batch
batchFallbackFromEnd(kind, batch, acc) ==
  LET fallbackCount == Min2(candidatesPerBatch(kind, Len(batch)), Len(batch))
  IN acc \o JsSliceFrom(batch, Len(batch) - fallbackCount)

\* the catch block of a batch
batchFallback(kind, batch, acc) ==
  LET fallbackCount == Min2(candidatesPerBatch(kind, Len(batch)), Len(batch))
  IN acc \o JsSlice(batch, 0, fallbackCount)

\* the end of the try block of a batch, or its catch block after a throw
batchOutcome(kind, batch, r) ==
  IF r.threw THEN batchFallback(kind, batch, r.acc) ELSE r.acc

\* one iteration of the batch loop: allCandidates after the batch
processBatch(p, kind, batch, raw, acc) ==
  LET response == makeRequest(p, raw, EmptyObject) IN
  IF response.kind = "throw" \/ ~ParsesExtracted(response) \/ ~response.has
  THEN batchFallback(kind, batch, acc)
  ELSE batchOutcome(kind, batch, matchSelections(p, batch, response.list, acc))

\* What the oracle may answer to a batch prompt.
BatchModes == {"down", "garbage", "empty", "all", "top", "reversed", "none", "nothing",
               "partial"}

Reverse(s) == [i \in 1..Len(s) |-> s[Len(s) + 1 - i]]

BatchReply(mode, kind, batch) ==
  CASE mode = "down" -> Throw
    [] mode = "garbage" -> Garbage
    [] mode = "empty" -> EmptyObject
    [] mode = "all" -> Selected(NamesOf(batch))
    [] mode = "top" -> Selected(NamesOf(JsSlice(batch, 0, candidatesPerBatch(kind, Len(batch)))))
    [] mode = "reversed" ->
         Selected(NamesOf(Reverse(JsSlice(batch, 0, candidatesPerBatch(kind, Len(batch))))))
    [] mode = "none" -> Selected(<<Entry(UnknownName)>>)
    [] mode = "nothing" -> Selected(<<>>)
    [] mode = "partial" -> Selected(<<Entry(Name(batch[1])), BadEntry>>)

\* The pool's cards of one reducer's kind, as selectLands / pickCreatures /
\* addSpells filter and sort them.
poolOfKind(pool, kind) ==
  sortByEDHRank(
    CASE kind = "basic" -> SelectSeq(pool, LAMBDA c : IsLand(c) /\ IsBasic(c))
      [] kind = "non-basic" -> SelectSeq(pool, LAMBDA c : IsLand(c) /\ ~IsBasic(c))
      [] kind = "creature" -> SelectSeq(pool, IsCreature)
      [] kind = "spell" -> SelectSeq(pool, LAMBDA c : ~IsCreature(c) /\ ~IsLand(c)))

ThePool == [i \in 1..PoolSize |-> i]

\* the sorted list each reducer starts from
sortedPool == [kind \in ReducerKinds |-> poolOfKind(ThePool, kind)]

(***************************************************************************)
(* Stage 1: generateCommanderPlan.  A strategy is its rank (0: the object   *)
(* has no rank), its archetypes and the set of fields the object carries.   *)
(***************************************************************************)
StrategyFields == {"description", "winConditions", "archetypes", "keyThemes"}

Strategy(rank, archetypes, fields) ==
  [rank |-> rank, archetypes |-> archetypes, fields |-> fields]

NoStrategy == Strategy(0, <<>>, {})
NoPlan == [rankedStrategies |-> <<>>, primaryStrategy |-> NoStrategy]

PlanThrow == [kind |-> "throw", has |-> FALSE, strategies |-> <<>>]
PlanGarbage == [kind |-> "garbage", has |-> FALSE, strategies |-> <<>>]
PlanJson(kind, strategies) == [kind |-> kind, has |-> TRUE, strategies |-> strategies]

\* getMockResponse for the plan prompt
MockPlanResponse ==
  PlanJson("json", <<Strategy(1, <<"Midrange", "Value">>, StrategyFields),
                     Strategy(2, <<"Aggro">>, StrategyFields),
                     Strategy(3, <<"Control">>, StrategyFields)>>)

\* the plan of the catch block
FallbackPlan ==
  [rankedStrategies |-> <<Strategy(1, <<"Midrange">>, StrategyFields),
                          Strategy(2, <<"Aggro">>, StrategyFields),
                          Strategy(3, <<"Control">>, StrategyFields)>>,
   primaryStrategy |-> Strategy(0, <<"Midrange">>, StrategyFields)]

\* arch.toLowerCase().includes("aggro"), over the archetype names of the model
ContainsAggro(arch) == arch \in {"Aggro", "aggro", "Aggro-Control"}

\* parsed.rankedStrategies.find(s => s.rank === 1) || parsed.rankedStrategies[0]
primaryOf(strategies) ==
  LET firsts == {i \in 1..Len(strategies) : strategies[i].rank = 1}
  IN IF firsts # {} THEN strategies[CHOOSE i \in firsts : \A j \in firsts : i <= j]
     ELSE IF strategies # <<>> THEN strategies[1]
     ELSE NoStrategy

\* generateCommanderPlan: threw is TRUE when the call leaves by an exception
generateCommanderPlan(p, raw) ==
  LET response == makeRequest(p, raw, MockPlanResponse)
      parses == IF p = "local" THEN ParsesDirect(response) ELSE ParsesExtracted(response)
  IN IF response.kind = "throw" THEN [threw |-> TRUE, plan |-> NoPlan]
     ELSE IF ~parses \/ ~response.has \/ response.strategies = <<>>
          THEN [threw |-> FALSE, plan |-> FallbackPlan]
          ELSE [threw |-> FALSE,
                plan |-> [rankedStrategies |-> response.strategies,
                          primaryStrategy |-> primaryOf(response.strategies)]]

\* plan.primaryStrategy.archetypes.some(...) throws when there are no archetypes
aggroThrows(plan) == "archetypes" \notin plan.primaryStrategy.fields
isAggro(plan) == \E i \in 1..Len(plan.primaryStrategy.archetypes) :
                    ContainsAggro(plan.primaryStrategy.archetypes[i])

\* every prompt after stage 1 joins winConditions and keyThemes of the plan
promptThrows(plan) == ~({"winConditions", "keyThemes"} \subseteq plan.primaryStrategy.fields)

\* commanderPlan.strategy.substring(0, 100) in buildDeck
summaryThrows(plan) == "description" \notin plan.primaryStrategy.fields

PlanModes == {"down", "garbage", "aggro", "wrapped",
              "noArchetypes", "noDescription", "noWinConditions", "two"}

ThreeWith(fields) ==
  <<Strategy(1, <<"Combo">>, fields), Strategy(2, <<"Aggro">>, StrategyFields),
    Strategy(3, <<"Control">>, StrategyFields)>>

PlanReply(mode) ==
  CASE mode = "down" -> PlanThrow
    [] mode = "garbage" -> PlanGarbage
    [] mode = "aggro" ->
         PlanJson("json", <<Strategy(2, <<"Control">>, StrategyFields),
                            Strategy(1, <<"Aggro", "Tokens">>, StrategyFields),
                            Strategy(3, <<"Midrange">>, StrategyFields)>>)
    [] mode = "wrapped" ->
         PlanJson("wrapped", <<Strategy(2, <<"Control">>, StrategyFields),
                               Strategy(1, <<"Aggro", "Tokens">>, StrategyFields),
                               Strategy(3, <<"Midrange">>, StrategyFields)>>)
    [] mode = "noArchetypes" -> PlanJson("json", ThreeWith(StrategyFields \ {"archetypes"}))
    [] mode = "noDescription" -> PlanJson("json", ThreeWith(StrategyFields \ {"description"}))
    [] mode = "noWinConditions" -> PlanJson("json", ThreeWith(StrategyFields \ {"winConditions"}))
    [] mode = "two" ->
         PlanJson("json", <<Strategy(2, <<"Control">>, StrategyFields),
                            Strategy(3, <<"Midrange">>, StrategyFields)>>)

(***************************************************************************)
(* Stage 2: finalLandSelection.                                             *)
(***************************************************************************)
LandEntry(nm, count) == [ok |-> TRUE, name |-> nm, count |-> count]

LandThrow == [kind |-> "throw", has |-> FALSE, basics |-> <<>>, nonBasics |-> <<>>, totalCount |-> 0]
LandSelected(basics, nonBasics, totalCount) ==
  [kind |-> "json", has |-> TRUE, basics |-> basics, nonBasics |-> nonBasics,
   totalCount |-> totalCount]
LandEmptyObject == [kind |-> "json", has |-> FALSE, basics |-> <<>>, nonBasics |-> <<>>, totalCount |-> 0]

LandPool(basics, nonBasics) ==
  [basics |-> basics, nonBasics |-> nonBasics, totalLands |-> Len(basics) + Len(nonBasics)]
NoLands == LandPool(<<>>, <<>>)

\* the loop over aiSelection.selectedBasics
RECURSIVE matchBasics(_, _, _)
matchBasics(basicCandidates, selections, acc) ==
  IF selections = <<>> THEN [threw |-> FALSE, acc |-> acc]
  ELSE LET selection == Head(selections) IN
       IF ~selection.ok THEN [threw |-> TRUE, acc |-> acc]
       ELSE LET matchingCards == SelectSeq(basicCandidates,
                                   LAMBDA c : landSelectionMatches(Name(c), selection.name))
                count == Min2(IF selection.count = 0 THEN 1 ELSE selection.count,
                              Len(matchingCards))
            IN matchBasics(basicCandidates, Tail(selections),
                           acc \o JsSlice(matchingCards, 0, count))

\* the loop over aiSelection.selectedNonBasics: every entry before the first
\* one that cannot be read pushes the card it finds, if it finds one
foundCards(cards, found) ==
  [k \in 1..Len(SelectSeq(found, LAMBDA idx : idx > 0)) |->
     cards[SelectSeq(found, LAMBDA idx : idx > 0)[k]]]

matchNonBasics(nonBasicCandidates, selections, acc) ==
  LET bad == {i \in 1..Len(selections) : ~selections[i].ok}
      readable == IF bad = {} THEN Len(selections)
                  ELSE (CHOOSE i \in bad : \A j \in bad : i <= j) - 1
  IN [threw |-> bad # {},
      acc |-> acc \o foundCards(nonBasicCandidates,
                       [i \in 1..readable |->
                          findLandSelection(nonBasicCandidates, 1, Len(nonBasicCandidates),
                                            selections[i].name)])]

\* the catch block of finalLandSelection, per provider
landFallback(p, plan, basicCandidates, nonBasicCandidates) ==
  IF p = "local"
  THEN LET landCount == IF isAggro(plan) THEN AggroLandCount ELSE DefaultLandCount
           basicCount == FloorFrac(landCount, 6, 10)
           nonBasicCount == landCount - basicCount
       IN LandPool(JsSlice(basicCandidates, 0, basicCount),
                   JsSlice(nonBasicCandidates, 0, nonBasicCount))
  ELSE LET targetBasics == Min2(RemoteFallbackBasics, Len(basicCandidates))
           targetNonBasics == Min2(RemoteFallbackNonBasics, Len(nonBasicCandidates))
       IN LandPool(JsSlice(basicCandidates, 0, targetBasics),
                   JsSlice(nonBasicCandidates, 0, targetNonBasics))

\* the rest of the try block once the selections are matched: fill the
\* shortfall with basics that are not selected yet
landsWithFill(basicCandidates, totalCount, selectedBasics, selectedNonBasics) ==
  LET targetCount == Min2(IF totalCount = 0 THEN DefaultLandTarget ELSE totalCount,
                          MaxLandTarget)
      currentCount == Len(selectedBasics) + Len(selectedNonBasics)
      additionalBasics ==
        IF currentCount < targetCount
        THEN JsSlice(SelectSeq(basicCandidates, LAMBDA b : ~SeqContains(selectedBasics, b)),
                     0, targetCount - currentCount)
        ELSE <<>>
  IN LandPool(selectedBasics \o additionalBasics, selectedNonBasics)

landOutcome(p, plan, basicCandidates, nonBasicCandidates, totalCount, bs, ns) ==
  IF bs.threw \/ ns.threw
  THEN IF p = "local" /\ aggroThrows(plan)
       THEN [threw |-> TRUE, lands |-> NoLands]
       ELSE [threw |-> FALSE,
             lands |-> landFallback(p, plan, basicCandidates, nonBasicCandidates)]
  ELSE [threw |-> FALSE,
        lands |-> landsWithFill(basicCandidates, totalCount, bs.acc, ns.acc)]

\* finalLandSelection after its prompt: threw is TRUE when the catch block throws
finalLandSelection(p, plan, basicCandidates, nonBasicCandidates, raw) ==
  LET response == makeRequest(p, raw, LandEmptyObject)
  IN IF response.kind = "throw" \/ ~ParsesExtracted(response) \/ ~response.has
     THEN IF p = "local" /\ aggroThrows(plan)
          THEN [threw |-> TRUE, lands |-> NoLands]
          ELSE [threw |-> FALSE,
                lands |-> landFallback(p, plan, basicCandidates, nonBasicCandidates)]
     ELSE landOutcome(p, plan, basicCandidates, nonBasicCandidates, response.totalCount,
                      matchBasics(basicCandidates, response.basics, <<>>),
                      matchNonBasics(nonBasicCandidates, response.nonBasics, <<>>))

(***************************************************************************)
(* Stages 3 and 4: finalCreatureSelection and finalSpellSelection.          *)
(***************************************************************************)
\* the try/catch the two final selections share: named candidates, no card
\* twice, filled up to targetCount; candidates.slice(0, targetCount) on failure
fillUp(candidates, targetCount, r) ==
  IF r.threw THEN JsSlice(candidates, 0, targetCount)
  ELSE IF Len(r.acc) < targetCount
       THEN r.acc \o JsSlice(SelectSeq(candidates, LAMBDA c : ~SeqContains(r.acc, c)),
                             0, targetCount - Len(r.acc))
       ELSE r.acc

selectAndFill(p, candidates, targetCount, raw) ==
  LET response == makeRequest(p, raw, EmptyObject)
  IN IF response.kind = "throw" \/ ~ParsesExtracted(response) \/ ~response.has
     THEN JsSlice(candidates, 0, targetCount)
     ELSE fillUp(candidates, targetCount, matchSelections(p, candidates, response.list, <<>>))

creatureTargetCount(plan) == IF isAggro(plan) THEN AggroCreatureCount ELSE DefaultCreatureCount

finalCreatureSelection(p, plan, creatureCandidates, raw) ==
  IF aggroThrows(plan) \/ promptThrows(plan)
  THEN [threw |-> TRUE, cards |-> <<>>]
  ELSE [threw |-> FALSE,
        cards |-> selectAndFill(p, creatureCandidates, creatureTargetCount(plan), raw)]

remainingSlots(totalLands, totalCreatures) == targetCards - totalLands - totalCreatures

finalSpellSelection(p, plan, spellCandidates, slots, raw) ==
  IF promptThrows(plan)
  THEN [threw |-> TRUE, cards |-> <<>>]
  ELSE [threw |-> FALSE, cards |-> selectAndFill(p, spellCandidates, slots, raw)]

(***************************************************************************)
(* Stage 5: optimizeCuts.                                                   *)
(***************************************************************************)
Cut(cardType, nm) == [ok |-> TRUE, cardType |-> cardType, name |-> nm]
BadCut == [ok |-> FALSE, cardType |-> "", name |-> <<>>]

CutThrow == [kind |-> "throw", has |-> FALSE, cuts |-> <<>>]
CutEmptyObject == [kind |-> "json", has |-> FALSE, cuts |-> <<>>]
CutsToMake(cuts) == [kind |-> "json", has |-> TRUE, cuts |-> cuts]

Lists(lands, creatures, spells) == [lands |-> lands, creatures |-> creatures, spells |-> spells]
TotalOf(lists) == Len(lists.lands) + Len(lists.creatures) + Len(lists.spells)

\* the findIndex of the case of cut.cardType; 0: not found, or no such case
cutIndex(p, lists, cut) ==
  CASE cut.cardType = "land" -> findCut(p, lists.lands, 1, Len(lists.lands), cut.name)
    [] cut.cardType = "creature" -> findCut(p, lists.creatures, 1, Len(lists.creatures), cut.name)
    [] cut.cardType = "spell" -> findCut(p, lists.spells, 1, Len(lists.spells), cut.name)
    [] OTHER -> 0

\* if (index >= 0) { list.splice(index, 1); cutsApplied[type]++ }
spliceCut(st, cardType, index) ==
  IF index = 0 THEN st
  ELSE [threw |-> FALSE,
        lists |-> CASE cardType = "land" -> [st.lists EXCEPT !.lands = RemoveAt(@, index)]
                    [] cardType = "creature" -> [st.lists EXCEPT !.creatures = RemoveAt(@, index)]
                    [] cardType = "spell" -> [st.lists EXCEPT !.spells = RemoveAt(@, index)],
        cutsApplied |-> st.cutsApplied + 1]

\* the loop over aiOptimization.cutsToMake: the lists are cut in place; threw is
\* TRUE at an entry whose type or name cannot be read
RECURSIVE applyCuts(_, _, _, _)
applyCuts(p, cuts, excess, st) ==
  IF cuts = <<>> \/ st.cutsApplied >= excess THEN st
  ELSE IF ~Head(cuts).ok THEN [st EXCEPT !.threw = TRUE]
  ELSE applyCuts(p, Tail(cuts), excess,
                 spliceCut(st, Head(cuts).cardType, cutIndex(p, st.lists, Head(cuts))))

\* "If AI cuts weren't sufficient": spells from the front, then creatures
mechanicalCuts(lists, remaining) ==
  IF Len(lists.spells) >= remaining
  THEN [lists EXCEPT !.spells = JsSliceFrom(@, remaining)]
  ELSE [lists EXCEPT !.spells = <<>>,
                     !.creatures = JsSliceFrom(@, remaining - Len(lists.spells))]

\* the catch block, per provider; totalSpells is the size of the stage's input
fallbackCuts(p, plan, lists, excess, totalSpells) ==
  IF isAggro(plan)
  THEN LET finalSpells == JsSlice(lists.spells, 0,
                                  Len(lists.spells) - Min2(excess, Len(lists.spells)))
           remaining == excess - (totalSpells - Len(finalSpells))
       IN IF p = "local" /\ remaining > 0
          THEN [lists EXCEPT !.spells = finalSpells,
                             !.creatures = JsSlice(@, 0, Len(@) - remaining)]
          ELSE [lists EXCEPT !.spells = finalSpells]
  ELSE IF p = "local"
       THEN [lists EXCEPT !.spells = JsSlice(@, 0, Len(@) - excess)]
       ELSE LET spellCuts == FloorFrac(excess, 6, 10)
                creatureCuts == FloorFrac(excess, 3, 10)
                landCuts == excess - spellCuts - creatureCuts
            IN [lands |-> JsSlice(lists.lands, 0, Len(lists.lands) - landCuts),
                creatures |-> JsSlice(lists.creatures, 0, Len(lists.creatures) - creatureCuts),
                spells |-> JsSlice(lists.spells, 0, Len(lists.spells) - spellCuts)]

\* mana_cost of a card: the symbols between braces, in order; a number k >= 0
\* is the generic symbol {k}, -1 a symbol without a digit, as {G} or {X}
ManaCost(c) ==
  CASE c % 5 = 0 -> <<>>
    [] c % 5 = 1 -> <<c % 4, -1>>
    [] c % 5 = 2 -> <<-1, -1>>
    [] c % 5 = 3 -> <<-1, 10 + (c % 3), -1, -1>>
    [] c % 5 = 4 -> <<0>>

\* card.mana_cost.match(/\d+/)?.[0], parseInt: the first number of the cost, or 0
firstNumber(manaCost) ==
  LET numeric == SelectSeq(manaCost, LAMBDA sym : sym >= 0)
  IN IF numeric = <<>> THEN 0 ELSE numeric[1]

\* extractCMC: the first number plus the number of symbols without a digit
extractCMC(manaCost) ==
  firstNumber(manaCost) + Len(SelectSeq(manaCost, LAMBDA sym : sym < 0))

\* the cmc under which the statistics of a provider count a card
curveCmc(p, c) ==
  IF p = "local" THEN firstNumber(ManaCost(c)) ELSE extractCMC(ManaCost(c))

\* a curve that counts the cards of cmc 0 nowhere
curveOfPricedCards(p, cards) ==
  [k \in {curveCmc(p, cards[i]) : i \in 1..Len(cards)} \ {0} |->
     Cardinality({i \in 1..Len(cards) : curveCmc(p, cards[i]) = k})]

\* manaCurve[cmc] = (manaCurve[cmc] || 0) + 1, for every card
calculateManaCurve(p, cards) ==
  [k \in {curveCmc(p, cards[i]) : i \in 1..Len(cards)} |->
     Cardinality({i \in 1..Len(cards) : curveCmc(p, cards[i]) = k})]

NoDeck == [lands |-> <<>>, creatures |-> <<>>, spells |-> <<>>, totalCards |-> 0,
           manaCurve |-> <<>>]
Deck(p, lists) ==
  [lands |-> lists.lands, creatures |-> lists.creatures,
   spells |-> lists.spells, totalCards |-> TotalOf(lists) + 1,
   manaCurve |-> calculateManaCurve(p, lists.creatures \o lists.spells)]

\* optimizeCuts after the loop over the cuts, or in the catch block
cutOutcome(p, plan, excess, totalSpells, r) ==
  IF r.threw
  THEN IF aggroThrows(plan) THEN [threw |-> TRUE, deck |-> NoDeck]
       ELSE [threw |-> FALSE,
             deck |-> Deck(p, fallbackCuts(p, plan, r.lists, excess, totalSpells))]
  ELSE [threw |-> FALSE,
        deck |-> Deck(p, IF r.cutsApplied < excess
                      THEN mechanicalCuts(r.lists, excess - r.cutsApplied)
                      ELSE r.lists)]

\* optimizeCuts asking the oracle whatever the total is
optimizeCutsUnguarded(p, plan, lists, raw) ==
  IF promptThrows(plan) \/ makeRequest(p, raw, CutEmptyObject).kind = "throw"
  THEN [threw |-> TRUE, deck |-> NoDeck]
  ELSE [threw |-> FALSE, deck |-> Deck(p, lists)]

\* optimizeCuts: threw is TRUE when the call leaves by an exception
optimizeCuts(p, plan, lists, raw) ==
  LET totalNonCommander == TotalOf(lists)
      excess == totalNonCommander - targetCards
      response == makeRequest(p, raw, CutEmptyObject)
      uncut == [threw |-> FALSE, lists |-> lists, cutsApplied |-> 0]
  IN IF totalNonCommander <= targetCards THEN [threw |-> FALSE, deck |-> Deck(p, lists)]
     ELSE IF promptThrows(plan) THEN [threw |-> TRUE, deck |-> NoDeck]
     ELSE IF response.kind = "throw" \/ ~ParsesExtracted(response) \/ ~response.has
          THEN cutOutcome(p, plan, excess, Len(lists.spells), [uncut EXCEPT !.threw = TRUE])
          ELSE cutOutcome(p, plan, excess, Len(lists.spells),
                          applyCuts(p, response.cuts, excess, uncut))

(***************************************************************************)
(* State.  provider, oracle (the answers the oracle gives to batch prompts  *)
(* in this run), plan; the reducer in progress: rkind, work (its input),    *)
(* batchIdx, allCandidates; the stage results basicCandidates, landPool,    *)
(* creaturePool, spellPool, finalDeck; emitted, the events of the build in  *)
(* order; pc, the await the build is suspended at.  lastBatch is the batch  *)
(* processed last with the oracle's answer to it, failedOnly says that the  *)
(* oracle failed on every call made so far.                                 *)
(* cardPool is the pool array the build was given, the cached array.       *)
(* The controller: requests, the state of each HTTP request and of its      *)
(* response stream; listening, the requests whose four handlers are         *)
(* registered on deckBuilderService; poolCount, the position of a           *)
(* pool-count request; writes, what has been written where it should not.   *)
(* Name reconciliation: matchSet, matchName, matched.  Pool resolution:     *)
(* cardPoolCache, the entries of the cache by commander id; now, the clock  *)
(* in ms; resolutions, the calls of getCommanderLegalPool by caller;        *)
(* resolved, the last successful resolution of each commander.  The client  *)
(* of the card database: rateLimiter, the fields of the RateLimiter and the *)
(* runs of processQueue; calls, the calls of throttle; sent, the fetches.    *)
(* The configuration: apiKey, whether config.ai.remote.apiKey is set.       *)
(***************************************************************************)
VARIABLES provider, oracle, pc, plan, work, rkind, batchIdx, allCandidates,
          basicCandidates, landPool, creaturePool, spellPool, finalDeck,
          emitted, lastBatch, failedOnly, cardPool, requests, listening, poolCount, writes,
          matchSet, matchName, matched, cardPoolCache, now, resolutions, resolved,
          rateLimiter, calls, sent, apiKey,
          isLoading, searchResults, error, searches,
          oracleCall, timeoutId, buildStage, callsLeft, terminal, state, reader

vars == <<provider, oracle, pc, plan, work, rkind, batchIdx, allCandidates,
          basicCandidates, landPool, creaturePool, spellPool, finalDeck,
          emitted, lastBatch, failedOnly, cardPool, requests, listening, poolCount, writes,
          matchSet, matchName, matched, cardPoolCache, now, resolutions, resolved,
          rateLimiter, calls, sent, apiKey,
          isLoading, searchResults, error, searches,
          oracleCall, timeoutId, buildStage, callsLeft, terminal, state, reader>>

buildVars == <<provider, oracle, pc, plan, work, rkind, batchIdx, allCandidates,
               basicCandidates, landPool, creaturePool, spellPool, finalDeck,
               emitted, lastBatch, failedOnly, cardPool>>
ctlVars == <<requests, listening, poolCount, writes>>
matchVars == <<matchSet, matchName, matched>>
poolVars == <<cardPoolCache, now, resolutions, resolved>>
dbVars == <<rateLimiter, calls, sent>>
configVars == <<apiKey>>
hookVars == <<isLoading, searchResults, error, searches>>
callVars == <<oracleCall, timeoutId, buildStage, callsLeft, terminal>>
builderVars == <<state, reader>>
otherVars == <<matchVars, poolVars, dbVars, configVars, hookVars, callVars, builderVars>>
reducerVars == <<work, rkind, batchIdx, allCandidates, lastBatch, failedOnly>>
resultVars == <<basicCandidates, landPool, creaturePool, spellPool, finalDeck>>

NoBatch == [batch |-> <<>>, mode |-> "", before |-> <<>>]

Stages == <<"processCommander", "selectLands", "pickCreatures", "addSpells", "optimizeCuts">>
stageStarted(stage) == [type |-> "stageStarted", stage |-> stage]
stageFinished(stage) == [type |-> "stageFinished", stage |-> stage]
errorEvent == [type |-> "error", stage |-> ""]

\* a boundary that announces the next stage before it closes the finished one
stageBoundarySwapped(finished, started) == <<stageStarted(started), stageFinished(finished)>>

\* the two emits between the awaits of two consecutive stages
stageBoundary(finished, started) == <<stageFinished(finished), stageStarted(started)>>

Reqs == 1..NumReqs

\* A request: rpc is the await its handler is suspended at, stage the await of
\* its build (0: the pool, k: stage k).  terminals counts the complete and
\* error records written to its response (2: two or more); ended: res.end()
\* has been called; disconnected: the consumer has closed the connection;
\* closeHandler: the handler of req "close" is registered.  stageRecords: a
\* stageStarted or stageFinished record has been written to its response.
\* keyless: it asked for the remote model while no API key is configured;
\* provider: the provider validateProvider returned for it, "none" when
\* that was not available, "" before.  complete: a complete record has been
\* written to its response; connected: the connected records written to it;
\* lateConnected: a connected record was written after a stage record;
\* dbFailed: getCardById or getCommanderLegalPool of its build has thrown;
\* progressAt: the stage its build was at when it emitted progress, -1 when
\* it has emitted none.
NewRequest ==
  [rpc |-> "idle", stage |-> 0, terminals |-> 0, ended |-> FALSE,
   disconnected |-> FALSE, closeHandler |-> FALSE, stageRecords |-> FALSE,
   keyless |-> FALSE, provider |-> "", complete |-> FALSE, connected |-> 0,
   lateConnected |-> FALSE, dbFailed |-> FALSE, progressAt |-> -1]

\* What has happened to some response so far: a record was written after
\* res.end(), or after the consumer's disconnect, or a record was written
\* that a build or request other than the response's own has produced.
NoWrites == [afterEnd |-> FALSE, afterClose |-> FALSE, foreign |-> FALSE]

NoController ==
  /\ requests = [r \in Reqs |-> NewRequest]
  /\ listening = {}
  /\ poolCount = "idle"
  /\ writes = NoWrites

\* no name is being reconciled
NoMatch ==
  /\ matchSet = <<>>
  /\ matchName = <<>>
  /\ matched = -1

(***************************************************************************)
(* Pool resolution.  A commander is known by its id; the card database      *)
(* answers a search for the pool of a commander page by page.  The data of  *)
(* a pool is the commander it belongs to and the number of its cards.       *)
(***************************************************************************)
CommanderIds == {"small", "under", "exact", "over"}

\* the number of commander-legal cards the database holds for a commander
PoolTotal(id) ==
  CASE id = "small" -> PageSize + 1
    [] id = "under" -> CARD_POOL_LIMIT - 1
    [] id = "exact" -> CARD_POOL_LIMIT
    [] id = "over" -> CARD_POOL_LIMIT + 1

\* rawSearch(query, page): the cards of the page and has_more
rawSearch(id, page) ==
  [cards |-> Max2(0, Min2(PageSize, PoolTotal(id) - (page - 1) * PageSize)),
   hasMore |-> page * PageSize < PoolTotal(id)]

NoData == [commander |-> "", cards |-> 0]
NoEntry == [data |-> NoData, expires |-> 0]
NoSuccess == [data |-> NoData, at |-> 0]

\* a test that finds no entry fresh
cacheNeverFresh(cached, t) == FALSE

\* cached && cached.expires > Date.now()
cacheFresh(cached, t) == cached # NoEntry /\ cached.expires > t

\* an expiry one tick late
cacheExpiryLate(t) == t + CACHE_DURATION + TickMs

\* expires: Date.now() + this.CACHE_DURATION
cacheExpiry(t) == t + CACHE_DURATION

\* a cache of one slot, whatever the commander
cacheSetUnkeyed(cache, id, data, t) ==
  [i \in DOMAIN cache |-> [data |-> data, expires |-> cacheExpiry(t)]]

\* this.cardPoolCache.set(commanderId, {data: allCards, expires})
cacheSet(cache, id, data, t) ==
  [cache EXCEPT ![id] = [data |-> data, expires |-> cacheExpiry(t)]]

\* a catch block that drops the entry of the commander
cacheEvicted(cache, id) == [cache EXCEPT ![id] = NoEntry]

\* the cache after the catch block of getCommanderLegalPool, which rethrows
cacheAfterFailure(cache, id) == cache

\* a resolution has succeeded less than CACHE_DURATION before t
withinWindow(success, t) == success # NoSuccess /\ t - success.at < CACHE_DURATION

\* the callers of getCommanderLegalPool
Resolvers == {"buildDeck", "getCardPoolCount"}

\* A resolution: pc is the await it is suspended at, or how it ended;
\* allCards, page and hasMore are the locals of the loop; requests counts the
\* requests it has sent to the card database; result is what it returned;
\* expected is the result of the last successful resolution of the same
\* commander, if that succeeded less than CACHE_DURATION before this one began.
IdleResolution ==
  [pc |-> "idle", id |-> "", allCards |-> 0, page |-> 0, hasMore |-> FALSE,
   requests |-> 0, result |-> NoData, expected |-> NoData]

NoPool ==
  /\ cardPoolCache = [id \in CommanderIds |-> NoEntry]
  /\ now = 0
  /\ resolutions = [r \in Resolvers |-> IdleResolution]
  /\ resolved = [id \in CommanderIds |-> NoSuccess]

(***************************************************************************)
(* The client of the card database: RateLimiter and requestWithRetry.       *)
(* Time is kept relative to the present: a timer is the time left until it  *)
(* fires, timeSinceLastRequest is Date.now() - lastRequestTime; times that  *)
(* are only compared with RATE_LIMIT_DELAY stop growing there.              *)
(***************************************************************************)
\* the calls of throttle, numbered in the order in which they are made
Callers == 1..NumCallers
Loops == {1, 2}
Latencies == {FastFetch, SlowFetch}

\* What a fetch brings: a readable answer of the database that is ok, has
\* status 429 or another error status; "fetchFailed": fetch throws an Error
\* whose message contains "fetch"; "otherError": any other exception of
\* fetch or of response.json(), as for a body that is not JSON.
Replies == {"ok", "rateLimited", "httpError", "fetchFailed", "otherError"}

\* A run of processQueue: pc is the await it is suspended at ("delay",
\* "fetch", "backoff") or "scheduled" between setTimeout(..., 0) and its
\* callback; caller is the request it executes, retryCount the parameter of
\* the requestWithRetry that is waiting.
NoLoop == [pc |-> "none", caller |-> 0, timer |-> 0, retryCount |-> 0]

\* A call of throttle, call c being the c-th one made: pc says whether its request is queued, executing or
\* settled; attempts counts its fetches, waits lists the delays before its
\* retries, lastReply is what its last fetch brought, result how it settled.
NoCall == [pc |-> "idle", attempts |-> 0, waits |-> <<>>, lastReply |-> "", result |-> ""]

\* The fetches sent so far: since is the time since the last fetch started,
\* gap the time between the starts of the last two; called and started list
\* the calls in the order of their throttle() and of their first fetch.
NoneSent == [since |-> RATE_LIMIT_DELAY, gap |-> RATE_LIMIT_DELAY,
             called |-> <<>>, started |-> <<>>]

NoDb ==
  /\ rateLimiter = [requestQueue |-> <<>>, isProcessing |-> FALSE,
                    timeSinceLastRequest |-> RATE_LIMIT_DELAY,
                    loops |-> [k \in Loops |-> NoLoop]]
  /\ calls = [c \in Callers |-> NoCall]
  /\ sent = NoneSent

\* INITIAL_RETRY_DELAY * (retryCount + 1)
retryDelayLinear(retryCount) == INITIAL_RETRY_DELAY * (retryCount + 1)

\* INITIAL_RETRY_DELAY * Math.pow(2, retryCount)
retryDelay(retryCount) == INITIAL_RETRY_DELAY * 2^retryCount

\* a limiter that stays marked as processing when its queue is empty
isProcessingStuck(requestQueue) == TRUE

\* a limiter that never marks itself as processing
isProcessingNever(requestQueue) == FALSE

\* isProcessing after the first statements of processQueue
isProcessingAfter(requestQueue) == requestQueue # <<>>

\* fetch(url, options) is called for call c: the monitor of the fetches
fetchSent(st, c) ==
  [st EXCEPT !.sent.gap = st.sent.since, !.sent.since = 0,
             !.sent.started = IF st.calls[c].attempts = 0 THEN Append(@, c) ELSE @,
             !.calls[c].attempts = @ + 1]

\* setTimeout(() => this.processQueue(), 0)
scheduleNext(st, k) ==
  [st EXCEPT !.rl.loops[k] = [NoLoop EXCEPT !.pc = "scheduled"]]

\* processQueue from requestQueue.shift() to the await of the first fetch
nextRequest(st, k, latency) ==
  IF st.rl.requestQueue = <<>> THEN scheduleNext(st, k)
  ELSE LET c == Head(st.rl.requestQueue) IN
       fetchSent([st EXCEPT !.rl.requestQueue = Tail(@),
                            !.rl.timeSinceLastRequest = 0,
                            !.rl.loops[k] = [pc |-> "fetch", caller |-> c,
                                             timer |-> latency, retryCount |-> 0],
                            !.calls[c].pc = "running"], c)

\* processQueue up to its first await, or to its return
processQueue(st, k, latency) ==
  LET marked == [st EXCEPT !.rl.isProcessing = isProcessingAfter(st.rl.requestQueue)] IN
  IF st.rl.requestQueue = <<>> THEN [marked EXCEPT !.rl.loops[k] = NoLoop]
  ELSE IF st.rl.timeSinceLastRequest < RATE_LIMIT_DELAY
       THEN [marked EXCEPT !.rl.loops[k] =
               [NoLoop EXCEPT !.pc = "delay",
                              !.timer = RATE_LIMIT_DELAY - st.rl.timeSinceLastRequest]]
       ELSE nextRequest(marked, k, latency)

\* requestWithRetry settles: the wrapper resolves or rejects the caller's
\* promise, await nextRequest() returns, the next run is scheduled
settle(st, k, reply, result) ==
  scheduleNext([st EXCEPT !.calls[st.rl.loops[k].caller] =
                            [@ EXCEPT !.pc = "done", !.lastReply = reply,
                                      !.result = result]], k)

\* await this.delay(retryDelay) before requestWithRetry(..., retryCount + 1)
backOff(st, k, reply) ==
  LET loop == st.rl.loops[k] IN
  [st EXCEPT !.rl.loops[k].pc = "backoff",
             !.rl.loops[k].timer = retryDelay(loop.retryCount),
             !.calls[loop.caller].lastReply = reply,
             !.calls[loop.caller].waits = Append(@, retryDelay(loop.retryCount))]

\* requestWithRetry after its fetch
requestWithRetry(st, k, reply) ==
  LET retryCount == st.rl.loops[k].retryCount IN
  CASE reply = "ok" -> settle(st, k, reply, "ok")
    [] reply = "rateLimited" ->
         IF retryCount < MAX_RETRIES THEN backOff(st, k, reply)
         ELSE settle(st, k, reply, "rateLimit")
    [] reply = "httpError" -> settle(st, k, reply, "httpError")
    [] reply = "fetchFailed" ->
         IF retryCount < MAX_RETRIES THEN backOff(st, k, reply)
         ELSE settle(st, k, reply, "networkError")
    [] reply = "otherError" -> settle(st, k, reply, "networkError")

\* no API key is configured
NoConfig == apiKey = FALSE

\* the state of useCommanderSearch after its first render; no call of
\* searchCommanders has been made
NoHook ==
  /\ isLoading = FALSE
  /\ searchResults = <<>>
  /\ error = ""
  /\ searches = [s \in 1..NumSearches |-> "idle"]

\* no oracle call is being made
NoCalls ==
  /\ oracleCall = "idle"
  /\ timeoutId = FALSE
  /\ buildStage = 0
  /\ callsLeft = 0
  /\ terminal = ""

\* the state of useDeckBuilder after its first render; buildDeck has not
\* been called.  error "" is null, result "" is null.
NoBuilder ==
  /\ state = [isBuilding |-> FALSE, progress |-> 0, currentStage |-> "",
               error |-> "", result |-> ""]
  /\ reader = [pc |-> "idle", records |-> 0]

NoOther == NoMatch /\ NoPool /\ NoDb /\ NoConfig /\ NoHook /\ NoCalls /\ NoBuilder

\* no build is running
NoBuild ==
  /\ oracle = {}
  /\ plan = NoPlan
  /\ pc = "resolved"
  /\ rkind = "basic"
  /\ work = <<>>
  /\ batchIdx = 0
  /\ allCandidates = <<>>
  /\ lastBatch = NoBatch
  /\ failedOnly = TRUE
  /\ basicCandidates = <<>>
  /\ landPool = NoLands
  /\ creaturePool = <<>>
  /\ spellPool = <<>>
  /\ finalDeck = NoDeck
  /\ emitted = <<>>
  /\ cardPool = ThePool

\* the catch block of buildDeck: emit error, rethrow
BuildFails ==
  /\ emitted' = Append(emitted, errorEvent)
  /\ pc' = "failed"
  /\ UNCHANGED cardPool

\* a stage sorting the array it was handed
poolSortedInPlace(pool, kind) == sortByEDHRank(pool)

\* The pool array after a stage has taken its cards from it: filter returns
\* a new array, and it is that array sortByEDHRank sorts in place.
poolAfterFilter(pool, kind) == pool

\* the call of a reducer up to its first await
StartReducer(kind) ==
  /\ rkind' = kind
  /\ batchIdx' = 0
  /\ allCandidates' = <<>>
  /\ work' = poolOfKind(cardPool, kind)
  /\ cardPool' = poolAfterFilter(cardPool, kind)
  /\ pc' = IF poolOfKind(cardPool, kind) = <<>> THEN "reduced" ELSE "reduce"

(***************************************************************************)
(* SpecReduce: one run of the batch reducer over a list of cards of one    *)
(* kind, the oracle answering each batch in any of BatchModes.             *)
(***************************************************************************)
InitReduce ==
  /\ provider \in Providers
  /\ oracle = BatchModes
  /\ plan \in {FallbackPlan, generateCommanderPlan("remote", PlanReply("noWinConditions")).plan}
  /\ rkind \in ReducerKinds
  /\ \E n \in 1..Len(sortedPool[rkind]) : work = JsSlice(sortedPool[rkind], 0, n)
  /\ pc = "reduce"
  /\ batchIdx = 0
  /\ allCandidates = <<>>
  /\ lastBatch = NoBatch
  /\ failedOnly = TRUE
  /\ basicCandidates = <<>>
  /\ landPool = NoLands
  /\ creaturePool = <<>>
  /\ spellPool = <<>>
  /\ finalDeck = NoDeck
  /\ emitted = <<>>
  /\ cardPool = ThePool
  /\ NoController
  /\ NoOther

\* one iteration of the loop of processBatchedLands / Creatures / Spells
ReduceBatch ==
  /\ pc = "reduce"
  /\ IF promptThrows(plan)
     THEN /\ BuildFails
          /\ UNCHANGED <<batchIdx, allCandidates, lastBatch, failedOnly>>
     ELSE LET batches == createBatches(work, reducerBatchSize(rkind)) IN
          /\ batchIdx < Len(batches)
          /\ \E mode \in oracle :
               LET batch == batches[batchIdx + 1] IN
               /\ allCandidates' = processBatch(provider, rkind, batch,
                                                BatchReply(mode, rkind, batch), allCandidates)
               /\ lastBatch' = [batch |-> batch, mode |-> mode, before |-> allCandidates]
               /\ failedOnly' = (failedOnly /\ mode = "down")
          /\ batchIdx' = batchIdx + 1
          /\ pc' = IF batchIdx + 1 = Len(batches) THEN "reduced" ELSE "reduce"
          /\ UNCHANGED <<emitted, cardPool>>
  /\ UNCHANGED <<ctlVars, otherVars>>
  /\ UNCHANGED <<provider, oracle, plan, work, rkind, resultVars>>

NextReduce == ReduceBatch

SpecReduce == InitReduce /\ [][NextReduce]_vars

(***************************************************************************)
(* Spec: one build, from the resolved pool to the FinalDeck or the error.   *)
(* What the oracle may answer to the final prompt of a stage:               *)
(*   down   the call fails;                                                 *)
(*   asked  the number of cards the prompt asks for, by name;               *)
(*   over   every candidate, by name.                                       *)
(***************************************************************************)
FinalModes == {"down", "asked", "over"}

LandEntriesOf(cards) == [i \in 1..Len(cards) |-> LandEntry(Name(cards[i]), 1)]

LandReply(mode, basics, nonBasics) ==
  CASE mode = "down" -> LandThrow
    [] mode = "asked" ->
         LandSelected(LandEntriesOf(basics),
                      LandEntriesOf(JsSlice(nonBasics, 0,
                                            Max2(DefaultLandTarget - Len(basics), 0))),
                      DefaultLandTarget)
    [] mode = "over" -> LandSelected(LandEntriesOf(basics), LandEntriesOf(nonBasics), 0)

FinalReply(mode, candidates, targetCount) ==
  CASE mode = "down" -> Throw
    [] mode = "asked" -> Selected(NamesOf(JsSlice(candidates, 0, Max2(targetCount, 0))))
    [] mode = "over" -> Selected(NamesOf(candidates))

(***************************************************************************)
(* What the oracle may answer to the cut prompt:                            *)
(*   down     the call fails;                                               *)
(*   asked    `excess` spells of the deck, by name;                         *)
(*   half     `excess` names, of which only the first half are in the deck; *)
(*   more     two names more than `excess`;                                 *)
(*   partial  one spell of the deck, then an entry without type and name.   *)
(***************************************************************************)
CutModes == {"down", "asked", "half", "more", "partial"}

CutsOf(cards) == [i \in 1..Len(cards) |-> Cut("spell", Name(cards[i]))]

CutReply(mode, lists, excess) ==
  CASE mode = "down" -> CutThrow
    [] mode = "asked" -> CutsToMake(CutsOf(JsSlice(lists.spells, 0, excess)))
    [] mode = "half" ->
         CutsToMake(CutsOf(JsSlice(lists.spells, 0, excess \div 2))
                    \o [i \in 1..(excess - excess \div 2) |-> Cut("spell", UnknownName)])
    [] mode = "more" -> CutsToMake(CutsOf(JsSlice(lists.spells, 0, excess + 2)))
    [] mode = "partial" -> CutsToMake(CutsOf(JsSlice(lists.spells, 0, 1)) \o <<BadCut>>)

Init ==
  /\ provider \in Providers
  /\ oracle \in {{"down"}, {"all"}, {"partial"}}
  /\ plan = NoPlan
  /\ pc = "resolved"
  /\ rkind = "basic"
  /\ work = <<>>
  /\ batchIdx = 0
  /\ allCandidates = <<>>
  /\ lastBatch = NoBatch
  /\ failedOnly = TRUE
  /\ basicCandidates = <<>>
  /\ landPool = NoLands
  /\ creaturePool = <<>>
  /\ spellPool = <<>>
  /\ finalDeck = NoDeck
  /\ emitted = <<>>
  /\ cardPool = ThePool
  /\ NoController
  /\ NoOther

\* buildDeck, from the resolved pool to the await of generateCommanderPlan
StartBuild ==
  /\ pc = "resolved"
  /\ emitted' = Append(emitted, stageStarted("processCommander"))
  /\ pc' = "plan"
  /\ UNCHANGED <<cardPool, ctlVars, otherVars>>
  /\ UNCHANGED <<provider, oracle, plan, reducerVars, resultVars>>

\* generateCommanderPlan returns; buildDeck runs on to the first batch of lands
ProcessCommander ==
  /\ pc = "plan"
  /\ \E mode \in PlanModes :
       \E r \in {generateCommanderPlan(provider, PlanReply(mode))} :
       /\ IF r.threw \/ summaryThrows(r.plan)
          THEN /\ BuildFails
               /\ UNCHANGED <<plan, work, rkind, batchIdx, allCandidates>>
          ELSE /\ plan' = r.plan
               /\ emitted' = emitted \o stageBoundary("processCommander", "selectLands")
               /\ StartReducer("basic")
       /\ failedOnly' = (failedOnly /\ mode = "down")
  /\ UNCHANGED <<ctlVars, otherVars>>
  /\ UNCHANGED <<provider, oracle, lastBatch, resultVars>>

\* selectLands between processBatchedLands(basics) and (nonBasics)
BasicsReduced ==
  /\ pc = "reduced"
  /\ rkind = "basic"
  /\ basicCandidates' = allCandidates
  /\ StartReducer("non-basic")
  /\ UNCHANGED <<ctlVars, otherVars>>
  /\ UNCHANGED <<provider, oracle, plan, lastBatch, failedOnly, landPool, creaturePool,
                 spellPool, finalDeck, emitted>>

\* finalLandSelection returns; buildDeck runs on to the first batch of creatures
SelectLands ==
  /\ pc = "reduced"
  /\ rkind = "non-basic"
  /\ \E mode \in FinalModes :
       \E r \in {finalLandSelection(provider, plan, basicCandidates, allCandidates,
                                     LandReply(mode, basicCandidates, allCandidates))} :
       /\ IF promptThrows(plan) \/ r.threw
          THEN /\ BuildFails
               /\ UNCHANGED <<landPool, work, rkind, batchIdx, allCandidates>>
          ELSE /\ landPool' = r.lands
               /\ emitted' = emitted \o stageBoundary("selectLands", "pickCreatures")
               /\ StartReducer("creature")
       /\ failedOnly' = (failedOnly /\ (promptThrows(plan) \/ mode = "down"))
  /\ UNCHANGED <<ctlVars, otherVars>>
  /\ UNCHANGED <<provider, oracle, plan, lastBatch, basicCandidates,
                 creaturePool, spellPool, finalDeck>>

\* finalCreatureSelection returns; buildDeck runs on to the first batch of spells
PickCreatures ==
  /\ pc = "reduced"
  /\ rkind = "creature"
  /\ \E mode \in FinalModes :
       \E r \in {finalCreatureSelection(provider, plan, allCandidates,
                    FinalReply(mode, allCandidates,
                               IF aggroThrows(plan) THEN 0 ELSE creatureTargetCount(plan)))} :
       /\ IF r.threw
          THEN /\ BuildFails
               /\ UNCHANGED <<creaturePool, work, rkind, batchIdx, allCandidates>>
          ELSE /\ creaturePool' = r.cards
               /\ emitted' = emitted \o stageBoundary("pickCreatures", "addSpells")
               /\ StartReducer("spell")
       /\ failedOnly' = (failedOnly /\ (r.threw \/ mode = "down"))
  /\ UNCHANGED <<ctlVars, otherVars>>
  /\ UNCHANGED <<provider, oracle, plan, lastBatch, basicCandidates,
                 landPool, spellPool, finalDeck>>

\* finalSpellSelection returns; buildDeck runs on to the await of optimizeCuts
AddSpells ==
  /\ pc = "reduced"
  /\ rkind = "spell"
  /\ \E mode \in FinalModes :
       \E slots \in {remainingSlots(landPool.totalLands, Len(creaturePool))} :
       \E r \in {finalSpellSelection(provider, plan, allCandidates, slots,
                                      FinalReply(mode, allCandidates, slots))} :
       /\ IF r.threw
          THEN /\ BuildFails
               /\ UNCHANGED spellPool
          ELSE /\ spellPool' = r.cards
               /\ emitted' = emitted \o stageBoundary("addSpells", "optimizeCuts")
               /\ pc' = "cuts"
               /\ UNCHANGED cardPool
       /\ failedOnly' = (failedOnly /\ (r.threw \/ mode = "down"))
  /\ UNCHANGED <<ctlVars, otherVars>>
  /\ UNCHANGED <<provider, oracle, plan, work, rkind, batchIdx, allCandidates, lastBatch,
                 basicCandidates, landPool, creaturePool, finalDeck>>

\* optimizeCuts returns; buildDeck returns the FinalDeck
OptimizeCuts ==
  /\ pc = "cuts"
  /\ \E mode \in CutModes :
       \E lists \in {Lists(landPool.basics \o landPool.nonBasics, creaturePool, spellPool)} :
       \E r \in {optimizeCuts(provider, plan, lists,
                               CutReply(mode, lists, TotalOf(lists) - targetCards))} :
       /\ IF r.threw
          THEN /\ BuildFails
               /\ UNCHANGED finalDeck
          ELSE /\ finalDeck' = r.deck
               /\ emitted' = Append(emitted, stageFinished("optimizeCuts"))
               /\ pc' = "done"
               /\ UNCHANGED cardPool
       /\ failedOnly' = (failedOnly /\ (TotalOf(lists) <= targetCards \/ promptThrows(plan)
                                         \/ mode = "down"))
  /\ UNCHANGED <<ctlVars, otherVars>>
  /\ UNCHANGED <<provider, oracle, plan, work, rkind, batchIdx, allCandidates, lastBatch,
                 basicCandidates, landPool, creaturePool, spellPool>>

Next ==
  \/ StartBuild
  \/ ProcessCommander
  \/ ReduceBatch
  \/ BasicsReduced
  \/ SelectLands
  \/ PickCreatures
  \/ AddSpells
  \/ OptimizeCuts

Spec == Init /\ [][Next]_vars

(***************************************************************************)
(* SpecCtl: the controller.  NumReqs build requests and one pool-count      *)
(* request are served by one process; every build runs on the one           *)
(* deckBuilderService, whose emit calls the handlers of every request that  *)
(* is listening.  A build is followed by its awaits only: Spec shows at     *)
(* which of them it can fail.                                               *)
(***************************************************************************)
PoolCountRequest == 0

\* the listeners a build request registers on deckBuilderService
ListenersPerRequest == 4

\* the stages whose await can end in an exception (BuildFails in Spec)
FailingStages == {1, 2, 3, 5}

\* res.write of a record of type `type` on the response q
write(q, type) ==
  [q EXCEPT !.terminals = IF type \in {"complete", "error"} THEN Min2(@ + 1, 2) ELSE @,
            !.stageRecords = @ \/ type \in {"stageStarted", "stageFinished"},
            !.complete = @ \/ type = "complete",
            !.connected = IF type = "connected" THEN @ + 1 ELSE @,
            !.lateConnected = @ \/ (type = "connected" /\ q.stageRecords)]

\* res.end()
end(q) == [q EXCEPT !.ended = TRUE]

\* handleStageStart, handleStageFinish, handleProgress: write; handleError:
\* write and end
handle(q, type) == IF type = "error" THEN end(write(q, type)) ELSE write(q, type)

\* deckBuilderService.emit: the handlers of every listening request run
emit(reqs, type) == [r \in Reqs |-> IF r \in listening THEN handle(reqs[r], type) ELSE reqs[r]]

\* writes after the responses of `to` have been written a record of `from`
noted(w, reqs, to, from) ==
  [afterEnd |-> w.afterEnd \/ \E r \in to : reqs[r].ended,
   afterClose |-> w.afterClose \/ \E r \in to : reqs[r].disconnected,
   foreign |-> w.foreign \/ \E r \in to : r # from]

InitCtl ==
  /\ provider = "local"
  /\ oracle = {}
  /\ plan = NoPlan
  /\ pc = "resolved"
  /\ rkind = "basic"
  /\ work = <<>>
  /\ batchIdx = 0
  /\ allCandidates = <<>>
  /\ lastBatch = NoBatch
  /\ failedOnly = TRUE
  /\ basicCandidates = <<>>
  /\ landPool = NoLands
  /\ creaturePool = <<>>
  /\ spellPool = <<>>
  /\ finalDeck = NoDeck
  /\ emitted = <<>>
  /\ cardPool = ThePool
  /\ NoController
  /\ NoMatch
  /\ NoPool
  /\ NoDb
  /\ NoHook
  /\ NoCalls
  /\ NoBuilder
  /\ apiKey \in BOOLEAN

\* a handler returning with its listeners still registered
listenersKept(registered, r) == registered

\* the finally block of the controller's buildDeck: the four removeListener
\* calls, with the handlers the request registered
removeListeners(registered, r) == registered \ {r}

\* buildDeck of the controller up to the await of validateProvider; a body
\* that fails the schema goes to next(error)
Receive(r) ==
  /\ requests[r].rpc = "idle"
  /\ \E valid \in BOOLEAN :
       IF valid
       THEN /\ requests' = [requests EXCEPT
                              ![r] = [write(@, "connected") EXCEPT !.rpc = "validating"]]
            /\ listening' = listening \cup {r}
       ELSE /\ requests' = [requests EXCEPT ![r].rpc = "rejected"]
            /\ UNCHANGED listening
  /\ UNCHANGED <<poolCount, writes, buildVars, otherVars>>

\* AIProviderFactory.validateProvider: hasKey says whether an API key is
\* configured, localAvailable what isAvailable() of the local provider returns
validateProvider(type, hasKey, localAvailable) ==
  IF type = "remote" /\ ~hasKey
  THEN [available |-> localAvailable, provider |-> "local"]
  ELSE IF type = "local"
       THEN [available |-> localAvailable, provider |-> "local"]
       ELSE [available |-> TRUE, provider |-> "remote"]

\* validateProvider returns: an unavailable provider ends the stream with an
\* error; otherwise the service's buildDeck runs with the provider returned,
\* up to its first await
Validate(r) ==
  /\ requests[r].rpc = "validating"
  /\ \E type \in Providers, localAvailable \in BOOLEAN :
       \E providerValidation \in {validateProvider(type, apiKey, localAvailable)} :
       IF providerValidation.available
       THEN /\ requests' = [requests EXCEPT
                              ![r] = [write(@, "connected") EXCEPT
                                        !.rpc = "building", !.stage = 0,
                                        !.keyless = (type = "remote" /\ ~apiKey),
                                        !.provider = providerValidation.provider]]
            /\ UNCHANGED listening
       ELSE /\ requests' = [requests EXCEPT
                              ![r] = [end(write(@, "error")) EXCEPT
                                        !.rpc = "finished",
                                        !.keyless = (type = "remote" /\ ~apiKey),
                                        !.provider = "none"]]
            /\ listening' = removeListeners(listening, r)
  /\ writes' = noted(writes, requests, {r}, r)
  /\ UNCHANGED <<poolCount, buildVars, otherVars>>

\* getCommanderLegalPool of the build of r misses the cache and fetches the
\* pool: it emits progress before the first page and after every page
FetchPool(r) ==
  /\ requests[r].rpc = "building"
  /\ requests[r].stage = 0
  /\ requests[r].progressAt = -1
  /\ requests' = [emit(requests, "progress") EXCEPT ![r].progressAt = requests[r].stage]
  /\ writes' = noted(writes, requests, listening, r)
  /\ UNCHANGED <<listening, poolCount, buildVars, otherVars>>

\* buildDeck of the service from its first await to its first stage: the
\* commander and the pool resolved ("cached": the pool came from the cache,
\* "fetched": from the fetch), or one of the two has thrown ("failed")
stageStartedBeforePool(reqs, r, outcome) ==
  IF outcome = "failed"
  THEN [emit(emit(reqs, "stageStarted"), "error") EXCEPT
          ![r].rpc = "threw", ![r].dbFailed = TRUE, ![r].stage = 1]
  ELSE [emit(reqs, "stageStarted") EXCEPT ![r].stage = 1]

poolResolved(reqs, r, outcome) ==
  IF outcome = "failed"
  THEN [emit(reqs, "error") EXCEPT ![r].rpc = "threw", ![r].dbFailed = TRUE]
  ELSE [emit(reqs, "stageStarted") EXCEPT ![r].stage = 1]

\* the build of r resumes after getCardById and getCommanderLegalPool: from
\* the cache, or after the fetch, or with an exception
ResolvePool(r) ==
  /\ requests[r].rpc = "building"
  /\ requests[r].stage = 0
  /\ \E outcome \in {"cached", "fetched", "failed"} :
       /\ outcome = "cached" => requests[r].progressAt = -1
       /\ outcome = "fetched" => requests[r].progressAt # -1
       /\ requests' = poolResolved(requests, r, outcome)
  /\ writes' = noted(writes, requests, listening, r)
  /\ UNCHANGED <<listening, poolCount, buildVars, otherVars>>

\* the await of stage k of the build of r ends
BuildStage(r) ==
  /\ requests[r].rpc = "building"
  /\ requests[r].stage \in 1..5
  /\ \E ok \in BOOLEAN :
       /\ ~ok => requests[r].stage \in FailingStages
       /\ requests' =
            IF ~ok THEN [emit(requests, "error") EXCEPT ![r].rpc = "threw"]
            ELSE IF requests[r].stage = 5
                 THEN [emit(requests, "stageFinished") EXCEPT ![r].rpc = "returned"]
                 ELSE [emit(emit(requests, "stageFinished"), "stageStarted")
                         EXCEPT ![r].stage = @ + 1]
  /\ writes' = noted(writes, requests, listening, r)
  /\ UNCHANGED <<listening, poolCount, buildVars, otherVars>>

\* the service's buildDeck has returned: complete, end, finally, req.on("close")
Complete(r) ==
  /\ requests[r].rpc = "returned"
  /\ requests' = [requests EXCEPT
                    ![r] = [end(write(@, "complete")) EXCEPT
                              !.rpc = "finished", !.closeHandler = TRUE]]
  /\ listening' = removeListeners(listening, r)
  /\ writes' = noted(writes, requests, {r}, r)
  /\ UNCHANGED <<poolCount, buildVars, otherVars>>

\* the service's buildDeck has thrown: the catch block, finally, req.on("close")
Fail(r) ==
  /\ requests[r].rpc = "threw"
  /\ requests' = [requests EXCEPT
                    ![r] = [end(write(@, "error")) EXCEPT
                              !.rpc = "finished", !.closeHandler = TRUE]]
  /\ listening' = removeListeners(listening, r)
  /\ writes' = noted(writes, requests, {r}, r)
  /\ UNCHANGED <<poolCount, buildVars, otherVars>>

\* the consumer of r closes the connection; the handler of "close" runs when
\* it is registered
Disconnect(r) ==
  /\ requests[r].rpc \notin {"idle", "rejected"}
  /\ ~requests[r].disconnected
  /\ requests' = [requests EXCEPT
                    ![r] = IF @.closeHandler THEN [end(@) EXCEPT !.disconnected = TRUE]
                           ELSE [@ EXCEPT !.disconnected = TRUE]]
  /\ listening' = IF requests[r].closeHandler THEN listening \ {r} ELSE listening
  /\ UNCHANGED <<poolCount, writes, buildVars, otherVars>>

\* getCardPool: getCardPoolCount resolves the pool, from the cache or by a
\* fetch that emits progress, page after page
PoolCount ==
  /\ poolCount \in {"idle", "fetching"}
  /\ \E outcome \in {"cached", "fetched"} :
       IF poolCount = "idle" /\ outcome = "cached"
       THEN poolCount' = "done" /\ UNCHANGED <<requests, writes>>
       ELSE /\ poolCount' = IF poolCount = "idle" THEN "fetching" ELSE "done"
            /\ requests' = emit(requests, "progress")
            /\ writes' = noted(writes, requests, listening, PoolCountRequest)
  /\ UNCHANGED <<listening, buildVars, otherVars>>

NextCtl ==
  \/ \E r \in Reqs : Receive(r)
  \/ \E r \in Reqs : Validate(r)
  \/ \E r \in Reqs : FetchPool(r)
  \/ \E r \in Reqs : ResolvePool(r)
  \/ \E r \in Reqs : BuildStage(r)
  \/ \E r \in Reqs : Complete(r)
  \/ \E r \in Reqs : Fail(r)
  \/ \E r \in Reqs : Disconnect(r)
  \/ PoolCount

SpecCtl == InitCtl /\ [][NextCtl]_vars

(***************************************************************************)
(* Name reconciliation on its own (SpecMatch): one name returned by the     *)
(* oracle is reconciled against a working set of cards with related names.  *)
(***************************************************************************)
\* the names the oracle returns: the names of the related cards, the first
\* of them in another case, and the name of no card
ReturnedNames ==
  {RelatedNames[i] : i \in 1..Len(RelatedNames)}
    \cup {<<510, 11, 12, 13, 14, 15>>, UnknownName}

\* the working sets: up to three different related cards, in any order
WorkingSets ==
  {<<a>> : a \in RelatedCards}
    \cup {s \in RelatedCards \X RelatedCards : s[1] # s[2]}
    \cup {s \in RelatedCards \X RelatedCards \X RelatedCards :
             s[1] # s[2] /\ s[1] # s[3] /\ s[2] # s[3]}

InitMatch ==
  /\ matchSet \in WorkingSets
  /\ matchName \in ReturnedNames
  /\ matched = -1
  /\ provider \in Providers
  /\ NoBuild
  /\ NoController
  /\ NoPool
  /\ NoDb
  /\ NoConfig
  /\ NoHook
  /\ NoCalls
  /\ NoBuilder

\* batch.find(...) for one selection
Reconcile ==
  /\ matched = -1
  /\ matched' = findSelection(provider, matchSet, 1, Len(matchSet), matchName)
  /\ UNCHANGED <<matchSet, matchName, ctlVars, buildVars, poolVars, dbVars, configVars, hookVars, callVars, builderVars>>

NextMatch == Reconcile

SpecMatch == InitMatch /\ [][NextMatch]_vars

(***************************************************************************)
(* SpecPool: pool resolution (getCommanderLegalPool) and its cache.  Two    *)
(* callers resolve pools on the one deckBuilderService, at any time and     *)
(* for any commander; a call may begin while another is awaiting the        *)
(* database.  No request is listening here, so the progress events of a     *)
(* resolution reach no handler.                                             *)
(***************************************************************************)
InitPool ==
  /\ provider = "local"
  /\ NoBuild
  /\ NoController
  /\ NoOther

resolutionOver(res) == res.pc \in {"idle", "returned", "tooLarge", "failed"}

\* getCommanderLegalPool up to its first await, or to its return from the cache
getCommanderLegalPool(r, id) ==
  /\ resolutionOver(resolutions[r])
  /\ LET cached == cardPoolCache[id]
         begun == [IdleResolution EXCEPT
                     !.id = id,
                     !.expected = IF withinWindow(resolved[id], now)
                                  THEN resolved[id].data ELSE NoData]
     IN resolutions' =
          [resolutions EXCEPT ![r] =
             IF cacheFresh(cached, now)
             THEN [begun EXCEPT !.pc = "returned", !.result = cached.data]
             ELSE [begun EXCEPT !.pc = "commander", !.requests = 1]]
  /\ UNCHANGED <<cardPoolCache, now, resolved>>
  /\ UNCHANGED <<buildVars, ctlVars, matchVars, dbVars, configVars, hookVars, callVars, builderVars>>

\* scryfallService.getCardById returns or throws; on to the first rawSearch
CommanderFetched(r) ==
  /\ resolutions[r].pc = "commander"
  /\ \E reply \in {"card", "noColorIdentity", "error"} :
       /\ resolutions' =
         [resolutions EXCEPT ![r] =
            IF reply = "card"
            THEN [@ EXCEPT !.pc = "search", !.allCards = 0, !.page = 1,
                           !.hasMore = TRUE, !.requests = @ + 1]
            ELSE [@ EXCEPT !.pc = "failed"]]
       /\ cardPoolCache' = IF reply = "card" THEN cardPoolCache
                           ELSE cacheAfterFailure(cardPoolCache, resolutions[r].id)
  /\ UNCHANGED <<now, resolved>>
  /\ UNCHANGED <<buildVars, ctlVars, matchVars, dbVars, configVars, hookVars, callVars, builderVars>>

\* scryfallService.rawSearch returns or throws: the rest of the loop body,
\* then the next rawSearch, or the cache entry and the return
SearchReturned(r) ==
  /\ resolutions[r].pc = "search"
  /\ \E reply \in {"list", "error"} :
       LET res == resolutions[r]
           searchResult == rawSearch(res.id, res.page)
           allCards == res.allCards + searchResult.cards
           hasMore == searchResult.hasMore
           data == [commander |-> res.id, cards |-> allCards]
           fetched == [res EXCEPT !.allCards = allCards, !.hasMore = hasMore,
                                  !.page = @ + 1]
       IN IF reply = "error"
          THEN /\ resolutions' = [resolutions EXCEPT ![r] = [res EXCEPT !.pc = "failed"]]
               /\ cardPoolCache' = cacheAfterFailure(cardPoolCache, res.id)
               /\ UNCHANGED resolved
          ELSE IF allCards >= CARD_POOL_LIMIT
          THEN /\ resolutions' = [resolutions EXCEPT ![r] = [fetched EXCEPT !.pc = "tooLarge"]]
               /\ cardPoolCache' = cacheAfterFailure(cardPoolCache, res.id)
               /\ UNCHANGED resolved
          ELSE IF hasMore /\ allCards < CARD_POOL_LIMIT
          THEN /\ resolutions' = [resolutions EXCEPT ![r] = [fetched EXCEPT !.requests = @ + 1]]
               /\ UNCHANGED <<cardPoolCache, resolved>>
          ELSE /\ resolutions' = [resolutions EXCEPT ![r] =
                                    [fetched EXCEPT !.pc = "returned", !.result = data]]
               /\ cardPoolCache' = cacheSet(cardPoolCache, res.id, data, now)
               /\ resolved' = [resolved EXCEPT ![res.id] = [data |-> data, at |-> now]]
  /\ UNCHANGED now
  /\ UNCHANGED <<buildVars, ctlVars, matchVars, dbVars, configVars, hookVars, callVars, builderVars>>

\* time passes
Tick ==
  /\ now < NumTicks * TickMs
  /\ now' = now + TickMs
  /\ UNCHANGED <<cardPoolCache, resolutions, resolved>>
  /\ UNCHANGED <<buildVars, ctlVars, matchVars, dbVars, configVars, hookVars, callVars, builderVars>>

NextPool ==
  \/ \E r \in Resolvers : \E id \in CommanderIds : getCommanderLegalPool(r, id)
  \/ \E r \in Resolvers : CommanderFetched(r)
  \/ \E r \in Resolvers : SearchReturned(r)
  \/ Tick

SpecPool == InitPool /\ [][NextPool]_vars

(***************************************************************************)
(* SpecDb: the client of the card database.  NumCallers requests are made   *)
(* through throttle at any moment; a fetch takes FastFetch or SlowFetch ms  *)
(* and brings any of Replies.                                               *)
(***************************************************************************)
InitDb ==
  /\ provider = "local"
  /\ NoBuild
  /\ NoController
  /\ NoOther

dbState == [rl |-> rateLimiter, calls |-> calls, sent |-> sent]

dbBecomes(st) ==
  /\ rateLimiter' = st.rl
  /\ calls' = st.calls
  /\ sent' = st.sent
  /\ UNCHANGED <<buildVars, ctlVars, matchVars, poolVars, configVars, hookVars, callVars, builderVars>>

freeLoops == {k \in Loops : rateLimiter.loops[k].pc = "none"}
dueLoop(k, at) == rateLimiter.loops[k].pc = at /\ rateLimiter.loops[k].timer = 0

\* throttle(fn): push the wrapper, call processQueue unless isProcessing
throttle(c) ==
  /\ calls[c].pc = "idle"
  /\ c = Len(sent.called) + 1
  /\ LET pushed == [dbState EXCEPT !.rl.requestQueue = Append(@, c),
                                   !.calls[c].pc = "queued",
                                   !.sent.called = Append(@, c)]
     IN IF rateLimiter.isProcessing THEN dbBecomes(pushed)
        ELSE /\ freeLoops # {}
             /\ \E latency \in Latencies :
                  dbBecomes(processQueue(pushed, CHOOSE k \in freeLoops : TRUE, latency))

\* the delay of processQueue is over: shift, fetch
DelayOver(k) ==
  /\ dueLoop(k, "delay")
  /\ \E latency \in Latencies : dbBecomes(nextRequest(dbState, k, latency))

\* a fetch returns or throws
FetchOver(k) ==
  /\ dueLoop(k, "fetch")
  /\ \E reply \in Replies : dbBecomes(requestWithRetry(dbState, k, reply))

\* the delay before a retry is over: requestWithRetry(url, options, retryCount + 1)
BackoffOver(k) ==
  /\ dueLoop(k, "backoff")
  /\ \E latency \in Latencies :
       dbBecomes(fetchSent([dbState EXCEPT !.rl.loops[k].pc = "fetch",
                                           !.rl.loops[k].timer = latency,
                                           !.rl.loops[k].retryCount = @ + 1],
                           rateLimiter.loops[k].caller))

\* the callback of setTimeout(..., 0): processQueue
Scheduled(k) ==
  /\ dueLoop(k, "scheduled")
  /\ \E latency \in Latencies : dbBecomes(processQueue(dbState, k, latency))

\* time passes, up to the next timer, or by IdleStep when no timer is set
Advance ==
  LET running == {k \in Loops : rateLimiter.loops[k].pc # "none"}
      step == IF running = {} THEN IdleStep
              ELSE CHOOSE d \in {rateLimiter.loops[k].timer : k \in running} :
                     \A k \in running : d <= rateLimiter.loops[k].timer
  IN /\ step > 0
     /\ dbBecomes([dbState EXCEPT
           !.rl.loops = [k \in Loops |->
                          IF k \in running THEN [@[k] EXCEPT !.timer = @ - step] ELSE @[k]],
           !.rl.timeSinceLastRequest = Min2(RATE_LIMIT_DELAY, @ + step),
           !.sent.since = Min2(RATE_LIMIT_DELAY, @ + step)])

NextDb ==
  \/ \E c \in Callers : throttle(c)
  \/ \E k \in Loops : DelayOver(k)
  \/ \E k \in Loops : FetchOver(k)
  \/ \E k \in Loops : BackoffOver(k)
  \/ \E k \in Loops : Scheduled(k)
  \/ Advance

SpecDb == InitDb /\ [][NextDb]_vars

\* SpecDb with the event loop's guarantees: a timer that is due fires, a
\* fetch that has been sent returns or throws, and time passes.
FairDb ==
  /\ SpecDb
  /\ WF_vars(\E k \in Loops : DelayOver(k))
  /\ WF_vars(\E k \in Loops : FetchOver(k))
  /\ WF_vars(\E k \in Loops : BackoffOver(k))
  /\ WF_vars(\E k \in Loops : Scheduled(k))
  /\ WF_vars(Advance)

(***************************************************************************)
(* SpecSearch: the hook useCommanderSearch.  NumSearches calls of           *)
(* searchCommanders are made on one mounted hook, a call at any time, also  *)
(* while earlier calls await scryfallClient.searchCommandersByName.         *)
(* searches[s] is "idle" before call s, "inFlight" while it awaits, "done"  *)
(* after it has returned; error "" is null; searchResults <<s>> are the     *)
(* cards found by call s.                                                   *)
(***************************************************************************)
InitSearch ==
  /\ provider = "local"
  /\ NoBuild
  /\ NoController
  /\ NoOther

\* searchCommanders(query) up to its await; a blank query returns at once
searchCommanders(s) ==
  /\ searches[s] = "idle"
  /\ \E blank \in BOOLEAN :
       IF blank
       THEN /\ searchResults' = <<>>
            /\ error' = ""
            /\ searches' = [searches EXCEPT ![s] = "done"]
            /\ UNCHANGED isLoading
       ELSE /\ isLoading' = TRUE
            /\ error' = ""
            /\ searches' = [searches EXCEPT ![s] = "inFlight"]
            /\ UNCHANGED searchResults
  /\ UNCHANGED <<buildVars, ctlVars, matchVars, poolVars, dbVars, configVars, callVars,
                 builderVars>>

\* the await of call s ends: cards found, none found, or an exception; finally
searchReturned(s) ==
  /\ searches[s] = "inFlight"
  /\ \E outcome \in {"found", "none", "failed"} :
       /\ searchResults' = IF outcome = "found" THEN <<s>> ELSE <<>>
       /\ error' = CASE outcome = "found" -> error
                      [] outcome = "none" -> "notFound"
                      [] outcome = "failed" -> "failed"
  /\ isLoading' = FALSE
  /\ searches' = [searches EXCEPT ![s] = "done"]
  /\ UNCHANGED <<buildVars, ctlVars, matchVars, poolVars, dbVars, configVars, callVars,
                 builderVars>>

NextSearch ==
  \/ \E s \in 1..NumSearches : searchCommanders(s)
  \/ \E s \in 1..NumSearches : searchReturned(s)

SpecSearch == InitSearch /\ [][NextSearch]_vars

(***************************************************************************)
(* SpecCall: the oracle calls of one build in time.  buildStage is the      *)
(* stage the build is in (0: it awaits the card database), callsLeft the    *)
(* oracle calls the stage has still to make, oracleCall where makeRequest   *)
(* stands: "idle", "checking" (the await of isAvailable), "fetching" (the   *)
(* await of fetch), "reading" (the await of response.json()), "answered"    *)
(* (it returns a text) or "failed" (it throws); timeoutId says that the     *)
(* timer that aborts the fetch is armed; terminal is the terminal event of  *)
(* the build.  The oracle answers when it likes, or never.                  *)
(***************************************************************************)
InitCall ==
  /\ provider \in Providers
  /\ NoBuild
  /\ NoController
  /\ NoOther

callBecomes(call, armed) ==
  /\ oracleCall' = call
  /\ timeoutId' = armed
  /\ UNCHANGED <<buildStage, callsLeft, terminal>>
  /\ UNCHANGED <<buildVars, ctlVars, matchVars, poolVars, dbVars, configVars, hookVars,
                 builderVars>>

\* the catch block of makeRequest: the local provider answers with
\* getMockResponse, the remote provider rethrows
requestFailed == IF provider = "local" THEN "answered" ELSE "failed"

\* getCardById and getCommanderLegalPool return or throw
PoolResolved ==
  /\ buildStage = 0 /\ terminal = ""
  /\ \E ok \in BOOLEAN, n \in 1..MaxCalls :
       IF ok THEN buildStage' = 1 /\ callsLeft' = n /\ UNCHANGED terminal
       ELSE terminal' = "error" /\ UNCHANGED <<buildStage, callsLeft>>
  /\ UNCHANGED <<oracleCall, timeoutId>>
  /\ UNCHANGED <<buildVars, ctlVars, matchVars, poolVars, dbVars, configVars, hookVars,
                 builderVars>>

\* makeRequest up to its first await: isAvailable with its 5 s timer for the
\* local provider, fetch with the 2 min timer for the remote provider
makeRequestBegins ==
  /\ buildStage \in 1..5 /\ terminal = "" /\ callsLeft > 0
  /\ oracleCall = "idle"
  /\ callBecomes(IF provider = "local" THEN "checking" ELSE "fetching", TRUE)

\* the fetch of isAvailable settles: clearTimeout, and the fetch of the
\* completion begins with its timer, or the mock response is returned
AvailabilityChecked ==
  /\ oracleCall = "checking"
  /\ \E isAvailable \in BOOLEAN :
       IF isAvailable THEN callBecomes("fetching", TRUE) ELSE callBecomes("answered", FALSE)

\* the timer fires: controller.abort() rejects the pending fetch
Abort ==
  /\ timeoutId
  /\ oracleCall \in {"checking", "fetching"}
  /\ callBecomes(IF oracleCall = "checking" THEN "answered" ELSE requestFailed, FALSE)

\* the fetch of the completion settles: it rejects (no connection), or it
\* resolves with the response head: clearTimeout(timeoutId), then the test
\* of response.ok
HeadersArrive ==
  /\ oracleCall = "fetching"
  /\ \E outcome \in {"ok", "notOk", "rejected"} :
       callBecomes(IF outcome = "ok" THEN "reading" ELSE requestFailed, FALSE)

\* response.json() settles
BodyArrives ==
  /\ oracleCall = "reading"
  /\ \E parsed \in BOOLEAN : callBecomes(IF parsed THEN "answered" ELSE requestFailed, FALSE)

\* makeRequest has returned or thrown and the stage runs on: to its next
\* call, to the next stage, to the end of the build, or to the catch block
\* of buildDeck
CallReturns ==
  /\ oracleCall \in {"answered", "failed"}
  /\ oracleCall' = "idle"
  /\ \E fatal \in BOOLEAN, n \in 1..MaxCalls :
       /\ fatal => buildStage \in FailingStages
       /\ IF fatal
          THEN terminal' = "error" /\ UNCHANGED <<buildStage, callsLeft>>
          ELSE IF callsLeft > 1
               THEN callsLeft' = callsLeft - 1 /\ UNCHANGED <<buildStage, terminal>>
               ELSE IF buildStage = 5
                    THEN terminal' = "complete" /\ callsLeft' = 0 /\ UNCHANGED buildStage
                    ELSE buildStage' = buildStage + 1 /\ callsLeft' = n /\ UNCHANGED terminal
  /\ UNCHANGED timeoutId
  /\ UNCHANGED <<buildVars, ctlVars, matchVars, poolVars, dbVars, configVars, hookVars,
                 builderVars>>

NextCall ==
  \/ PoolResolved
  \/ makeRequestBegins
  \/ AvailabilityChecked
  \/ Abort
  \/ HeadersArrive
  \/ BodyArrives
  \/ CallReturns

SpecCall == InitCall /\ [][NextCall]_vars

\* every step of the program and every timer is taken in the end, and the
\* database always answers; nothing is assumed of the oracle
FairCall ==
  /\ SpecCall
  /\ WF_vars(PoolResolved)
  /\ WF_vars(makeRequestBegins)
  /\ WF_vars(Abort)
  /\ WF_vars(CallReturns)

(***************************************************************************)
(* SpecBuilder: the hook useDeckBuilder during one call of buildDeck.       *)
(* state holds the fields of the hook's state a build changes (error and    *)
(* result: "" is null); reader is the position of buildDeckWithFetch:       *)
(* "idle" before the call, "fetching" at the await of fetch, "reading" at   *)
(* the await of reader.read(), "returned" when buildDeck of the hook has    *)
(* returned; records counts the records read.  The server sends any         *)
(* records, at most MaxRecords of them, and may close the stream at any     *)
(* moment.                                                                  *)
(***************************************************************************)
RecordTypes == {"connected", "stageStarted", "stageFinished", "progress", "complete", "error"}

InitBuilder ==
  /\ provider = "local"
  /\ NoBuild
  /\ NoController
  /\ NoOther

\* the setState of handleProgress; stage and value are the record's fields
handleProgress(prev, type, stage, value) ==
  CASE type = "connected" -> [prev EXCEPT !.isBuilding = TRUE, !.error = ""]
    [] type = "stageStarted" -> [prev EXCEPT !.currentStage = stage]
    [] type = "stageFinished" -> [prev EXCEPT !.progress = Min2(100, @ + 20)]
    [] type = "progress" -> [prev EXCEPT !.progress = IF value # 0 THEN value ELSE @]
    [] type = "complete" -> [prev EXCEPT !.isBuilding = FALSE, !.progress = 100,
                                         !.result = "deck", !.currentStage = "Complete"]
    [] type = "error" -> [prev EXCEPT !.isBuilding = FALSE, !.error = "reported",
                                      !.currentStage = "Error"]

\* the catch block of the hook's buildDeck
requestThrew(prev) ==
  [prev EXCEPT !.isBuilding = FALSE, !.error = "thrown", !.currentStage = "Error"]

builderBecomes(st, position) ==
  /\ state' = st
  /\ reader' = position
  /\ UNCHANGED <<buildVars, ctlVars, matchVars, poolVars, dbVars, configVars, hookVars,
                 callVars>>

\* buildDeck of the hook up to the await of fetch in buildDeckWithFetch
buildDeck ==
  /\ reader.pc = "idle"
  /\ builderBecomes([state EXCEPT !.isBuilding = TRUE, !.progress = 0, !.error = "",
                                   !.result = "", !.currentStage = "Initializing"],
                    [reader EXCEPT !.pc = "fetching"])

\* fetch returns or throws: a response that is not ok or has no body throws
ResponseArrives ==
  /\ reader.pc = "fetching"
  /\ \E outcome \in {"ok", "notOk", "noBody", "rejected"} :
       IF outcome = "ok"
       THEN builderBecomes(state, [reader EXCEPT !.pc = "reading"])
       ELSE builderBecomes(requestThrew(state), [reader EXCEPT !.pc = "returned"])

\* reader.read() brings a line; a line that is not JSON is skipped, a
\* complete or error record ends buildDeckWithFetch
ReadRecord ==
  /\ reader.pc = "reading"
  /\ reader.records < MaxRecords
  /\ \E parses \in BOOLEAN, type \in RecordTypes, k \in {1, Len(Stages)}, value \in {0, 50} :
       IF ~parses
       THEN builderBecomes(state, [reader EXCEPT !.records = @ + 1])
       ELSE builderBecomes(handleProgress(state, type, Stages[k], value),
                           [pc |-> IF type \in {"complete", "error"} THEN "returned"
                                   ELSE "reading",
                            records |-> reader.records + 1])

\* reader.read() reports the end of the stream: break, finally, return
ReadDone ==
  /\ reader.pc = "reading"
  /\ builderBecomes(state, [reader EXCEPT !.pc = "returned"])

\* reader.read() rejects: finally, the catch block of the hook
ReadThrows ==
  /\ reader.pc = "reading"
  /\ builderBecomes(requestThrew(state), [reader EXCEPT !.pc = "returned"])

NextBuilder ==
  \/ buildDeck
  \/ ResponseArrives
  \/ ReadRecord
  \/ ReadDone
  \/ ReadThrows

SpecBuilder == InitBuilder /\ [][NextBuilder]_vars

(***************************************************************************)
(* Properties of one build (Spec).                                          *)
(***************************************************************************)
\* the cards that enter the optimization stage, and the cards it leaves
cardsBeforeCuts == landPool.totalLands + Len(creaturePool) + Len(spellPool)
cardsAfterCuts == Len(finalDeck.lands) + Len(finalDeck.creatures) + Len(finalDeck.spells)

\* C1: a build that returns a FinalDeck returns one of 100 cards.
C1_TotalCardsIs100 ==
  pc = "done" => finalDeck.totalCards = 100

\* C2: entered with 99 + excess cards, excess > 0, the optimization stage
\* removes exactly excess cards.
C2_RemovesExactlyExcess ==
  (pc = "done" /\ cardsBeforeCuts > 99) =>
     cardsBeforeCuts - cardsAfterCuts = cardsBeforeCuts - 99

\* C3: no answer of the oracle, failed or malformed, ends the build in error.
C3_OracleFailureNeverFatal ==
  pc # "failed" /\ (\A i \in 1..Len(emitted) : emitted[i].type # "error")

\* the stage events of a whole build
AllStageEvents ==
  [i \in 1..10 |-> IF i % 2 = 1 THEN [type |-> "stageStarted", stage |-> Stages[(i + 1) \div 2]]
                   ELSE [type |-> "stageFinished", stage |-> Stages[i \div 2]]]

\* C5: the stage events of a build are, in order, stageStarted and
\* stageFinished of processCommander, selectLands, pickCreatures, addSpells
\* and optimizeCuts, up to the point the build has reached; a build that
\* returns a deck has emitted all ten, each once.
C5_StagesInOrder ==
  LET stageEvents == SelectSeq(emitted, LAMBDA e : e.type # "error") IN
  /\ Len(stageEvents) <= 10
  /\ stageEvents = SubSeq(AllStageEvents, 1, Len(stageEvents))
  /\ pc = "done" => Len(stageEvents) = 10

\* a build has returned its deck
C5_Witness ==
  /\ pc = "done"
  /\ finalDeck.totalCards > 0
  /\ emitted # <<>> /\ emitted[Len(emitted)] = stageFinished("optimizeCuts")

(***************************************************************************)
(* Properties of the controller (SpecCtl).                                  *)
(***************************************************************************)
\* C4: the stream of a build holds one terminal record at most, exactly one
\* when the request is finished, and nothing is written once the response
\* has been ended.
C4_OneTerminalEvent ==
  /\ ~writes.afterEnd
  /\ \A r \in Reqs :
       /\ requests[r].terminals <= 1
       /\ requests[r].rpc = "finished" => requests[r].terminals = 1

\* C6: every record written to the stream of a request was produced by that
\* request's own build.
C6_BuildsIndependent ==
  ~writes.foreign

\* C7: nothing is written to the stream of a request once its consumer has
\* disconnected, and a disconnected request does not stay registered on the
\* service after the await it disconnected in.
C7_SilentAfterDisconnect ==
  /\ ~writes.afterClose
  /\ \A r \in Reqs : (requests[r].disconnected /\ requests[r].rpc = "finished") =>
                       r \notin listening

\* C20: a request for the remote model made while no API key is configured
\* and the local service is unavailable gets exactly one error record, no
\* stage record and no complete record, and its pipeline is never started;
\* when the local service is available its build runs with the local
\* provider.
C20_MisconfigurationReportedOnce ==
  \A r \in Reqs :
    LET q == requests[r] IN
    /\ (q.keyless /\ q.provider = "none") =>
          /\ q.rpc = "finished" /\ q.stage = 0
          /\ q.terminals = 1
          /\ ~q.stageRecords
    /\ (q.keyless /\ q.provider \notin {"", "none"}) =>
          /\ q.provider = "local"
          /\ q.rpc \in {"building", "threw", "returned", "finished"}

\* C21: a build whose commander fetch or pool resolution has thrown has
\* emitted no stageStarted event; an error record has been written to its
\* response and the response has been ended, no complete record is ever
\* written to it, and the build goes no further.
C21_DatabaseFailureAborts ==
  \A r \in Reqs :
    LET q == requests[r] IN
    q.dbFailed =>
      /\ q.stage = 0
      /\ q.rpc \in {"threw", "finished"}
      /\ q.terminals >= 1 /\ q.ended
      /\ ~q.complete

\* the pool fetch of a build has failed after it had emitted progress, the
\* request is over, and another build is in one of its stages
C21_Witness ==
  \E r, o \in Reqs :
    /\ requests[r].dbFailed /\ requests[r].progressAt # -1 /\ requests[r].rpc = "finished"
    /\ o # r /\ requests[o].stage >= 1

\* C29: a response carries a second connected record only when its request
\* asked for the remote model without an API key and is served by the local
\* provider; a request served by the provider it asked for carries exactly
\* one, and no connected record is written after a stage record.
C29_ConnectedOnce ==
  \A r \in Reqs :
    LET q == requests[r] IN
    /\ q.connected <= 2
    /\ q.connected = 2 => q.keyless /\ q.provider = "local"
    /\ (q.provider \notin {"", "none"} /\ ~q.keyless) => q.connected = 1
    /\ ~q.lateConnected

\* C30: a build that has emitted a progress event, which is tagged
\* processCommander, emitted it in its stage 1: after its
\* stageStarted(processCommander) and before its stageFinished(processCommander).
C30_ProgressWithinStage ==
  \A r \in Reqs : requests[r].progressAt \in {-1, 1}

\* C31: every build delivers its terminal event in the end, whatever the
\* oracle does, when the database answers every call.
C31_BuildTerminates == <>(terminal # "")

\* C22: at every stage a build reaches, the local and the remote provider
\* return the same selection for the same plan, the same candidates and the
\* same answer of the oracle (a failure included), and the same final deck
\* with the same statistics.
C22_ProvidersInterchangeable ==
  /\ (pc = "reduced" /\ rkind = "non-basic") =>
       \A mode \in FinalModes :
         finalLandSelection("local", plan, basicCandidates, allCandidates,
                            LandReply(mode, basicCandidates, allCandidates))
           = finalLandSelection("remote", plan, basicCandidates, allCandidates,
                                LandReply(mode, basicCandidates, allCandidates))
  /\ (pc = "reduced" /\ rkind = "creature") =>
       \A mode \in FinalModes :
         LET raw == FinalReply(mode, allCandidates,
                               IF aggroThrows(plan) THEN 0 ELSE creatureTargetCount(plan))
         IN finalCreatureSelection("local", plan, allCandidates, raw)
              = finalCreatureSelection("remote", plan, allCandidates, raw)
  /\ (pc = "reduced" /\ rkind = "spell") =>
       \A mode \in FinalModes :
         LET slots == remainingSlots(landPool.totalLands, Len(creaturePool))
             raw == FinalReply(mode, allCandidates, slots)
         IN finalSpellSelection("local", plan, allCandidates, slots, raw)
              = finalSpellSelection("remote", plan, allCandidates, slots, raw)
  /\ pc = "cuts" =>
       \A mode \in CutModes :
         LET lists == Lists(landPool.basics \o landPool.nonBasics, creaturePool, spellPool)
             raw == CutReply(mode, lists, TotalOf(lists) - targetCards)
         IN optimizeCuts("local", plan, lists, raw) = optimizeCuts("remote", plan, lists, raw)

\* C23: isLoading is TRUE exactly while some call of searchCommanders is
\* awaiting its search, and FALSE once every call made has returned.
C23_LoadingWhileInFlight ==
  isLoading = (\E s \in 1..NumSearches : searches[s] = "inFlight")

\* `kept` is a prefix of `before`
keptPrefix(kept, before) ==
  Len(kept) <= Len(before) /\ kept = SubSeq(before, 1, Len(kept))

\* C24: when the cuts the oracle named were applied without an exception and
\* were fewer than the excess, the trimming that follows keeps a prefix of
\* each list as it stood after those cuts, touches the creatures only when
\* no spell is left, and the lands only when no spell and no creature is left.
C24_TrimmingCutsFromTheEnd ==
  (pc = "cuts" /\ ~promptThrows(plan)) =>
    \A mode \in CutModes \ {"down"} :
      LET lists == Lists(landPool.basics \o landPool.nonBasics, creaturePool, spellPool)
          excess == TotalOf(lists) - targetCards
          r == applyCuts(provider, CutReply(mode, lists, excess).cuts, excess,
                         [threw |-> FALSE, lists |-> lists, cutsApplied |-> 0])
          trimmed == mechanicalCuts(r.lists, excess - r.cutsApplied)
      IN (excess > 0 /\ ~r.threw /\ r.cutsApplied < excess) =>
           /\ keptPrefix(trimmed.spells, r.lists.spells)
           /\ keptPrefix(trimmed.creatures, r.lists.creatures)
           /\ keptPrefix(trimmed.lands, r.lists.lands)
           /\ trimmed.creatures # r.lists.creatures => trimmed.spells = <<>>
           /\ trimmed.lands # r.lists.lands =>
                trimmed.spells = <<>> /\ trimmed.creatures = <<>>

\* C25: the spell stage returns at most max(0, 99 - totalLands -
\* totalCreatures) spells, whether its final oracle call succeeded or failed.
C25_SpellsWithinSlots ==
  pc \in {"cuts", "done"} =>
    Len(spellPool) <= Max2(0, remainingSlots(landPool.totalLands, Len(creaturePool)))

\* C26: with N = 30 for an aggro plan and 26 otherwise, the creature stage
\* returns the first N candidates when its final oracle call fails, and
\* exactly N creatures when the call succeeds and at least N candidates exist.
C26_CreatureTarget ==
  (pc = "reduced" /\ rkind = "creature" /\ ~aggroThrows(plan) /\ ~promptThrows(plan)) =>
    \A mode \in FinalModes :
      LET N == IF isAggro(plan) THEN 30 ELSE 26
          r == finalCreatureSelection(provider, plan, allCandidates,
                                      FinalReply(mode, allCandidates, N))
      IN /\ ~r.threw
         /\ mode = "down" => r.cards = SubSeq(allCandidates, 1, Min2(N, Len(allCandidates)))
         /\ (mode # "down" /\ Len(allCandidates) >= N) => Len(r.cards) = N

\* C27: when the final land oracle call succeeds and at least 37 land
\* candidates exist, the land stage returns between 35 and 37 lands.
C27_LandTargetOnSuccess ==
  (pc = "reduced" /\ rkind = "non-basic" /\ ~promptThrows(plan)
     /\ Len(basicCandidates) + Len(allCandidates) >= MaxLandTarget) =>
    \A mode \in FinalModes \ {"down"} :
      LET r == finalLandSelection(provider, plan, basicCandidates, allCandidates,
                                  LandReply(mode, basicCandidates, allCandidates))
      IN ~r.threw /\ r.lands.totalLands \in 35..37

(***************************************************************************)
(* Properties of the batch reducer (SpecReduce).                            *)
(***************************************************************************)
\* the retention of each kind of reducer, as a fraction
RetentionNum(kind) ==
  CASE kind = "basic" -> 80 [] kind = "non-basic" -> 25
    [] kind = "creature" -> 30 [] kind = "spell" -> 35

\* ceil(fraction x n): the least whole number that is at least n * num / 100
Quota(kind, n) ==
  CHOOSE q \in 0..n : /\ 100 * q >= RetentionNum(kind) * n
                      /\ \A r \in 0..n : 100 * r >= RetentionNum(kind) * n => q <= r

\* the cards of `input` that stand, within their batch of `size`, among the
\* first Quota cards of the batch
PrefixesOfBatches(input, kind, size) ==
  LET lengthOfBatch(b) == Min2(size, Len(input) - b * size)
      kept == SelectSeq([j \in 1..Len(input) |-> j],
                        LAMBDA j : (j - 1) % size
                                     < Quota(kind, lengthOfBatch((j - 1) \div size)))
  IN [k \in 1..Len(kept) |-> input[kept[k]]]

\* C8: when the oracle call fails for every batch, the reducer does not throw
\* on any of these calls, and its output is the concatenation, in batch
\* order, of the first ceil(fraction x batch length) cards of each batch; it
\* is not empty.  (A plan without winConditions or keyThemes stops the
\* reducer in getLandBatchPrompt, before its first oracle call.)
C8_FailingOracleGivesPrefixes ==
  /\ (failedOnly /\ batchIdx > 0) => pc # "failed"
  /\ (pc = "reduced" /\ failedOnly) =>
       /\ allCandidates = PrefixesOfBatches(work, rkind,
                                            IF rkind = "basic" THEN 20 ELSE 30)
       /\ allCandidates # <<>>

\* a reducer run over more than one batch has ended, the oracle having failed
\* on every batch
C8_Witness ==
  /\ pc = "reduced" /\ failedOnly
  /\ batchIdx > 1
  /\ Len(work) % 30 # 0

\* the cards an answered list names, in the order it names them
listedCards(mode, kind, batch) ==
  LET top == SubSeq(batch, 1, Quota(kind, Len(batch))) IN
  CASE mode = "all" -> batch
    [] mode = "top" -> top
    [] mode = "reversed" -> [i \in 1..Len(top) |-> top[Len(top) + 1 - i]]
    [] mode \in {"none", "nothing"} -> <<>>

\* C28: the batches are consecutive slices of the input, of batchSize cards
\* but for the last, and together they are the input; every batch in turn is
\* evaluated, whatever happened to the batches before it; a batch appends
\* cards of its own to the output and leaves the output before it as it
\* was, and what it appends when the oracle's list is read to its end is the
\* listed cards in the order of the list.
C28_OutputIsConcatenation ==
  LET size == IF rkind = "basic" THEN 20 ELSE 30
      batches == createBatches(work, reducerBatchSize(rkind))
      start(k) == (k - 1) * size
      added == SubSeq(allCandidates, Len(lastBatch.before) + 1, Len(allCandidates))
  IN /\ Len(batches) * size >= Len(work) /\ (Len(batches) - 1) * size < Len(work)
     /\ \A k \in 1..Len(batches) :
          /\ Len(batches[k]) = Min2(size, Len(work) - start(k))
          /\ \A i \in 1..Len(batches[k]) : batches[k][i] = work[start(k) + i]
     /\ pc = "reduce" => batchIdx < Len(batches)
     /\ pc = "reduced" => batchIdx = Len(batches)
     /\ batchIdx > 0 =>
          /\ lastBatch.batch = batches[batchIdx]
          /\ keptPrefix(lastBatch.before, allCandidates)
          /\ \A i \in 1..Len(added) : SeqContains(lastBatch.batch, added[i])
          /\ lastBatch.mode \in {"all", "top", "reversed", "none", "nothing"} =>
               added = listedCards(lastBatch.mode, rkind, lastBatch.batch)

\* a reducer run has ended whose second batch was answered with a list in
\* another order than the batch, after its first batch had failed
C28_Witness ==
  /\ pc = "reduced" /\ batchIdx = 2
  /\ lastBatch.mode = "reversed" /\ Len(lastBatch.batch) > 1
  /\ Len(allCandidates) > Len(lastBatch.before)
  /\ lastBatch.before = PrefixesOfBatches(SubSeq(work, 1, IF rkind = "basic" THEN 20 ELSE 30),
                                           rkind, IF rkind = "basic" THEN 20 ELSE 30)

\* C9: every non-empty batch adds at least one candidate to the output,
\* whatever the oracle answers.
C9_EveryBatchContributes ==
  lastBatch.batch # <<>> => Len(allCandidates) > Len(lastBatch.before)

\* C10: the reducer output never holds the same card twice.
C10_NoCardTwice ==
  \A i \in 1..Len(allCandidates) : \A j \in 1..Len(allCandidates) :
    i # j => allCandidates[i] # allCandidates[j]

\* C39: liveness of the rate limiter.  A request handed to throttle, at
\* whatever moment, is never in the queue without the limiter being marked
\* as processing and a run of processQueue being active or scheduled, and
\* it is eventually executed and settled, whether the requests before it
\* resolve or reject.
C39_EveryRequestSettles ==
  /\ [](rateLimiter.requestQueue # <<>> =>
          /\ rateLimiter.isProcessing
          /\ \E k \in Loops : rateLimiter.loops[k].pc # "none")
  /\ \A c \in Callers : (calls[c].pc = "queued") ~> (calls[c].pc = "done")

\* a request has been rejected and the one queued behind it resolved, while
\* a third waits in the queue
C39_Witness ==
  /\ calls[1].pc = "done" /\ calls[1].result # "ok"
  /\ calls[2].pc = "done" /\ calls[2].result = "ok"
  /\ calls[3].pc = "queued"

\* C40: once the hook's buildDeck has returned (the stream has ended by a
\* complete record, an error record, a thrown request error or the server
\* closing the stream), isBuilding is false and result or error is set.
C40_BuildingEnds ==
  reader.pc = "returned" => /\ ~state.isBuilding
                            /\ state.result # "" \/ state.error # ""

(***************************************************************************)
(* Properties of name reconciliation (SpecMatch).                           *)
(***************************************************************************)
\* the positions of the working set whose card satisfies `tier`
positionsOf(tier(_)) == {i \in 1..Len(matchSet) : tier(Name(matchSet[i]))}

exactTier(cardName) == ToLowerCase(cardName) = ToLowerCase(matchName)
substringTier(cardName) ==
  \/ Includes(ToLowerCase(cardName), ToLowerCase(matchName))
  \/ Includes(ToLowerCase(matchName), ToLowerCase(cardName))
fuzzyTier(cardName) == fuzzyMatch(provider, cardName, matchName)

\* the first position of a set of positions, 0 for the empty set
firstPosition(S) == IF S = {} THEN 0 ELSE CHOOSE i \in S : \A j \in S : i <= j

\* the card the tiers select: an exact match if there is one, else a match by
\* substring, else a fuzzy match
tieredChoice ==
  IF positionsOf(exactTier) # {} THEN firstPosition(positionsOf(exactTier))
  ELSE IF positionsOf(substringTier) # {} THEN firstPosition(positionsOf(substringTier))
  ELSE firstPosition(positionsOf(fuzzyTier))

\* C11: the card reconciled with a returned name is the one the tiers select:
\* a card whose name equals it case-insensitively if there is one, else one
\* matching by substring, else one matching fuzzily, wherever the cards stand
\* in the working set.
C11_TiersInPriorityOrder ==
  matched >= 0 => matched = tieredChoice
\* C12: when every call of the oracle fails throughout a build, the land
\* stage returns 35, 36 or 37 lands, and the deck the build returns has a
\* creature and a spell.
C12_OutageLandCount ==
  LET landsChosen == \E i \in 1..Len(emitted) : emitted[i] = stageFinished("selectLands") IN
  /\ (failedOnly /\ landsChosen) => landPool.totalLands \in {35, 36, 37}
  /\ (failedOnly /\ pc = "done") => finalDeck.creatures # <<>> /\ finalDeck.spells # <<>>

\* C13: the plan of stage 1 has exactly 3 ranked strategies, and its
\* primaryStrategy is the one of rank 1 among them, whatever the oracle
\* answered.
C13_ThreeStrategiesRankOnePrimary ==
  plan # NoPlan =>
    /\ Len(plan.rankedStrategies) = 3
    /\ \E i \in 1..Len(plan.rankedStrategies) :
         /\ plan.rankedStrategies[i].rank = 1
         /\ plan.rankedStrategies[i].archetypes = plan.primaryStrategy.archetypes
         /\ plan.rankedStrategies[i].fields = plan.primaryStrategy.fields

\* C14: a resolution fails with the pool-too-large error only when it has
\* more than 20,000 cards or pages are left to fetch; a resolution that
\* returns cards it fetched returns at most 20,000.
C14_TooLargeOnlyAbove ==
  \A r \in Resolvers :
    LET res == resolutions[r] IN
    /\ res.pc = "tooLarge" => res.allCards > CARD_POOL_LIMIT \/ res.hasMore
    /\ (res.pc = "returned" /\ res.requests > 0) => res.result.cards <= CARD_POOL_LIMIT

\* C15: a resolution that begins less than 10 minutes after a resolution of
\* the same commander has succeeded returns the result of that resolution
\* and sends no request to the card database.
C15_CacheIdempotent ==
  \A r \in Resolvers :
    LET res == resolutions[r] IN
    res.expected # NoData =>
      /\ res.requests = 0
      /\ res.pc = "returned"
      /\ res.result = res.expected

\* a resolution was answered from the cache some time after the resolution
\* that filled it, while another commander's pool is cached too
C15_Witness ==
  \E r \in Resolvers :
    LET res == resolutions[r] IN
    /\ res.pc = "returned" /\ res.expected # NoData
    /\ res.result = res.expected /\ res.requests = 0
    /\ now > resolved[res.id].at
    /\ \E id \in CommanderIds \ {res.id} : cardPoolCache[id] # NoEntry

\* C32: a cache entry is the complete pool of the commander it is stored
\* under, and so is what a resolution returns, from the cache or from its
\* own fetch, however the resolutions interleave.
C32_CacheHoldsCompletePools ==
  /\ \A id \in CommanderIds :
       cardPoolCache[id] # NoEntry =>
         cardPoolCache[id].data = [commander |-> id, cards |-> PoolTotal(id)]
  /\ \A r \in Resolvers :
       LET res == resolutions[r] IN
       res.pc = "returned" => res.result = [commander |-> res.id, cards |-> PoolTotal(res.id)]

\* a resolution was answered from the cache while another resolution of the
\* same commander had fetched a part of the pool
C32_Witness ==
  \E a, b \in Resolvers :
    /\ a # b /\ resolutions[a].id = resolutions[b].id
    /\ resolutions[a].pc = "search" /\ resolutions[a].allCards > 0
    /\ resolutions[b].pc = "returned" /\ resolutions[b].requests = 0

\* C33: a resolution that begins 10 minutes or more after the last
\* successful resolution of its commander (or with none before) sends
\* requests to the database, and an entry expires 10 minutes after the
\* resolution that stored it succeeded.
C33_NeverServedAfterExpiry ==
  /\ \A r \in Resolvers :
       LET res == resolutions[r] IN
       (res.pc # "idle" /\ res.expected = NoData) => res.requests >= 1
  /\ \A id \in CommanderIds :
       cardPoolCache[id] # NoEntry =>
         cardPoolCache[id].expires = resolved[id].at + CACHE_DURATION

\* a resolution that began exactly 10 minutes after its commander's entry
\* was stored has fetched the pool and stored it again
C33_Witness ==
  \E r \in Resolvers :
    LET res == resolutions[r] IN
    /\ res.pc = "returned" /\ res.requests > 1 /\ res.expected = NoData
    /\ resolved[res.id].at = CACHE_DURATION
    /\ cardPoolCache[res.id].expires = 2 * CACHE_DURATION

\* C34: a resolution that fails leaves the cache as it was.
C34_FailureLeavesCache ==
  [][\A r \in Resolvers :
       (resolutions'[r].pc \in {"failed", "tooLarge"} /\ resolutions[r].pc \notin {"failed", "tooLarge"})
         => cardPoolCache' = cardPoolCache]_vars

\* a resolution has failed while the cache holds an entry of its commander
\* that an earlier resolution stored
C34_Witness ==
  \E r \in Resolvers :
    /\ resolutions[r].pc = "failed"
    /\ cardPoolCache[resolutions[r].id] # NoEntry

\* C35: the pool array is read-only for the pipeline.  At every point of a
\* build, under either provider and every oracle behaviour, the array the
\* build was given holds the same cards in the same order as when it was
\* resolved, and every stage works on the cards a second build would get.
C35_PoolReadOnly ==
  /\ cardPool = ThePool
  /\ pc = "reduce" => work = sortedPool[rkind]

\* a build has run through all four filters, whose sorting would have
\* reordered the pool, and has delivered a deck
C35_Witness ==
  /\ pc = "done"
  /\ rkind = "spell"
  /\ sortByEDHRank(ThePool) # ThePool
  /\ cardPool = ThePool

\* C36: the final deck is a singleton list apart from basic lands.  In a
\* delivered deck no card occurs twice among the non-basic lands, the
\* creatures and the spells taken together: not twice in one category and
\* not in two categories.
C36_SingletonDeck ==
  pc = "done" =>
    LET singles == SelectSeq(finalDeck.lands, LAMBDA c : ~IsBasic(c))
                     \o finalDeck.creatures \o finalDeck.spells IN
    \A i \in 1..Len(singles) : \A j \in 1..Len(singles) :
      i # j => singles[i] # singles[j]

C38_ListenersOfRunningRequests ==
  LET inProgress == {r \in Reqs : requests[r].rpc \notin {"idle", "rejected", "finished"}} IN
  /\ listening = inProgress
  /\ ListenersPerRequest * Cardinality(listening)
       = ListenersPerRequest * Cardinality(inProgress)
  /\ inProgress = {} => ListenersPerRequest * Cardinality(listening) = 0

\* every request has been served, one by a completed build, one by a
\* failure, and no listener is left
C38_Witness ==
  /\ \A r \in Reqs : requests[r].rpc = "finished"
  /\ \E r \in Reqs : requests[r].complete
  /\ \E r \in Reqs : ~requests[r].complete
  /\ listening = {}

\* the sum of the values of a curve
RECURSIVE curveTotal(_)
curveTotal(curve) ==
  IF DOMAIN curve = {} THEN 0
  ELSE LET k == CHOOSE x \in DOMAIN curve : TRUE
       IN curve[k] + curveTotal([x \in DOMAIN curve \ {k} |-> curve[x]])

\* C19: the values of manaCurve of a deck that is returned sum to the
\* number of its creatures plus the number of its spells.
C19_CurveCountsEveryCard ==
  pc = "done" =>
    curveTotal(finalDeck.manaCurve) = Len(finalDeck.creatures) + Len(finalDeck.spells)

\* a deck is returned whose curve has several costs, 0 among them
C19_Witness ==
  /\ pc = "done"
  /\ Cardinality(DOMAIN finalDeck.manaCurve) >= 3
  /\ 0 \in DOMAIN finalDeck.manaCurve
  /\ finalDeck.creatures # <<>> /\ finalDeck.spells # <<>>

(***************************************************************************)
(* Properties of the client of the card database (SpecDb).                  *)
(***************************************************************************)
\* C16: at most one throttled request is executing, at most one run of
\* processQueue is active, and the requests start in the order of their
\* calls of throttle.
C16_Serialized ==
  /\ Cardinality({c \in Callers : calls[c].pc = "running"}) <= 1
  /\ Cardinality({k \in Loops : rateLimiter.loops[k].pc # "none"}) <= 1
  /\ Len(sent.started) <= Len(sent.called)
  /\ sent.started = SubSeq(sent.called, 1, Len(sent.started))

\* a request is executing while two later ones wait in the queue
C16_Witness ==
  /\ \E c \in Callers : calls[c].pc = "running"
  /\ Len(rateLimiter.requestQueue) >= 2
  /\ rateLimiter.isProcessing
  /\ sent.started # <<>>

\* C17: any two consecutive fetches sent to the card database start at
\* least 100 ms apart.
C17_MinimumDelay ==
  sent.gap >= RATE_LIMIT_DELAY

====
